---- MODULE Spec2Model ----
(***************************************************************************)
(* Verification model of the salon reservation bot                         *)
(* (src/api/reservation_flow.py, src/api/google_calendar.py,               *)
(*  src/api/google_sheets_logger.py, src/api/index.py).                    *)
(*                                                                         *)
(* Two specifications share this module:                                   *)
(*   SpecAvail - the gap-finding availability computation applied to       *)
(*               bounded sets of calendar events;                          *)
(*   Spec      - the per-user conversation state machine together with     *)
(*               the calendar and the reservation sheet.                   *)
(***************************************************************************)
EXTENDS Integers, Sequences, FiniteSets, TLC

VARIABLES
    av_pc,          \* SpecAvail: "input" before the computation, "done" after
    av_date,        \* SpecAvail: the date the slots are requested for
    av_events,      \* SpecAvail: the events the calendar returned
    av_periods,     \* SpecAvail: result of _find_available_periods per business period
    av_slots,       \* SpecAvail: result of _generate_all_slots for av_date
    av_exclude,     \* SpecAvail: exclude_reservation_id of the request, "" when none
    av_check,       \* SpecAvail: the latest staff availability check and its result
    user_states,    \* ReservationFlow.user_states: user id -> session dict
    calendar,       \* the events of the Google Calendar, in creation order
    sheet,          \* the rows of the Reservations worksheet, in row order
    last,           \* what the handling of the latest message did
    failures,       \* how many calls to an outside service have failed so far
    writes,         \* how many messages have written to the calendar or the sheet
    requests,       \* SpecLoop: the webhook requests received, in order of arrival
    consented,      \* UserConsentManager.consented_users
    reminders,      \* the reminder runs so far and what the latest one pushed
    scheduler       \* SpecScheduler: Tokyo time of day and the configured time

av_vars == <<av_pc, av_date, av_events, av_periods, av_slots, av_exclude, av_check>>
job_vars == <<reminders, scheduler>>
flow_vars == <<user_states, calendar, sheet, last, failures, writes, requests,
               consented, reminders, scheduler>>
vars == <<av_pc, av_date, av_events, av_periods, av_slots, av_exclude, av_check,
          user_states, calendar, sheet, last, failures, writes, requests,
          consented, reminders, scheduler>>

(***************************************************************************)
(* Python dicts are functions whose domain is the set of keys present.     *)
(***************************************************************************)
EmptyDict == [k \in {} |-> k]
Put(d, k, v) == (k :> v) @@ d
Del(d, k) == [x \in DOMAIN d \ {k} |-> d[x]]

\* no staff availability check was made yet
NoCheck == [staff |-> "", start |-> 0, end |-> 0, exclude |-> "", available |-> TRUE]

\* the record of a handling before any message was handled
NoLast == [user |-> "", step |-> "", kw |-> {}, msg |-> [kw |-> {}, body |-> [kind |-> "none"]],
           reply |-> "", calls |-> {}]

\* the users whose consent user_consent.json holds when the server starts
Consented == {"U1", "U2", "U3", "U4"}

\* no reminder run was made yet
NoReminders == [runs |-> 0, sent |-> <<>>]

\* the scheduler loop at midnight with the default reminder time 09:00
NoScheduler == [current |-> 0, scheduled_hour |-> 9, scheduled_minute |-> 0]

(***************************************************************************)
(* Bounds of the model.                                                    *)
(***************************************************************************)
\* most reminder runs in one behaviour
MaxRuns == 1
\* largest number of calendar events given to the availability computation
MaxEvents == 2
\* last hour of the day at which a modelled event may start or end
LastHour == 19
\* most calls to an outside service that fail in one behaviour
MaxFailures == 1
\* largest value of the clock digits in generate_reservation_id
MaxCounter == 1
\* most messages that write to the calendar or the sheet in one behaviour
MaxWrites == 2
\* most reservations the calendar and the sheet hold
MaxReservations == 2

(***************************************************************************)
(* Time of day.  Event datetimes are minutes after midnight; the strings   *)
(* the program compares and stores ("09:00", "9:00") are records           *)
(* [w, h, m]: w is the number of digits the hour is written with.          *)
(***************************************************************************)
\* strftime("%H:%M"): always two hour digits
strftime_HM(minutes) ==
    [w |-> 2, h |-> minutes \div 60, m |-> minutes % 60]

\* datetime.strptime(s, "%H:%M") reduced to minutes after midnight
strptime_HM(s) == s.h * 60 + s.m

\* the characters of a time string; digits are 0..9 and ':' is 10
\* (':' sorts after every digit, as in ASCII)
Chars(s) ==
    IF s.w = 1
    THEN <<s.h, 10, s.m \div 10, s.m % 10>>
    ELSE <<s.h \div 10, s.h % 10, 10, s.m \div 10, s.m % 10>>

RECURSIVE LexLess(_, _)
\* Python's str "<" on two character sequences
LexLess(a, b) ==
    IF b = <<>> THEN FALSE
    ELSE IF a = <<>> THEN TRUE
    ELSE IF Head(a) < Head(b) THEN TRUE
    ELSE IF Head(a) > Head(b) THEN FALSE
    ELSE LexLess(Tail(a), Tail(b))

\* Python's str "<=" and ">=" on time strings
StrLE(s, t) == Chars(s) = Chars(t) \/ LexLess(Chars(s), Chars(t))
StrGE(s, t) == StrLE(t, s)

(***************************************************************************)
(* Availability (google_calendar.py).                                      *)
(***************************************************************************)
\* business hours 9:00~12:00 and 13:00~18:00
business_periods == << [start |-> 9, end |-> 12], [start |-> 13, end |-> 18] >>

\* the dates of the model: a Wednesday and a Sunday
Dates == {"2025-01-15", "2025-01-19"}

\* date.weekday(): Monday is 0, Sunday is 6
weekday(d) == IF d = "2025-01-19" THEN 6 ELSE 2

RECURSIVE SortByStart(_)
\* list.sort(key=start): stable insertion sort by start time
SortByStart(events) ==
    IF events = <<>> THEN <<>>
    ELSE LET rest == SortByStart(Tail(events))
             e == Head(events)
             before == SelectSeq(rest, LAMBDA x : x.start < e.start)
             after == SelectSeq(rest, LAMBDA x : x.start >= e.start)
         IN  before \o <<e>> \o after

RECURSIVE FindWalk(_, _, _, _)
\* the loop of _find_available_periods over the events: cursor is the
\* local business_start, acc the windows emitted so far
FindWalk(events, cursor, business_end, acc) ==
    IF events = <<>>
    THEN IF cursor < business_end
         THEN Append(acc, [start |-> strftime_HM(cursor),
                           end |-> strftime_HM(business_end)])
         ELSE acc
    ELSE LET event == Head(events)
         IN  IF event.start <= business_end /\ event.end >= cursor
             THEN IF event.start > cursor
                  THEN FindWalk(Tail(events), event.end, business_end,
                                Append(acc, [start |-> strftime_HM(cursor),
                                             end |-> strftime_HM(event.start)]))
                  ELSE IF event.start = cursor
                  THEN FindWalk(Tail(events), event.end, business_end, acc)
                  ELSE FindWalk(Tail(events), cursor, business_end, acc)
             ELSE FindWalk(Tail(events), cursor, business_end, acc)

\* a plausible slip: the trailing gap after the last event is forgotten
_find_available_periods_no_final_gap(business_period, events) ==
    LET all == FindWalk(events, business_period.start * 60,
                        business_period.end * 60, <<>>)
    IN  IF events = <<>> THEN all
        ELSE SelectSeq(all, LAMBDA p :
                 strptime_HM(p.end) # business_period.end * 60)

_find_available_periods(business_period, events) ==
    FindWalk(events, business_period.start * 60, business_period.end * 60, <<>>)

\* the slots of one date: _generate_all_slots restricted to current_date
_generate_all_slots_afternoon_first(date, events) ==
    IF weekday(date) = 6 THEN <<>>
    ELSE LET date_events ==
                 SortByStart(SelectSeq(events, LAMBDA e : e.date = date))
             slot(p) == [date |-> date, time |-> p.start,
                         end_time |-> p.end, available |-> TRUE]
             per(i) == LET ps == _find_available_periods(business_periods[i],
                                                         date_events)
                       IN  [k \in 1..Len(ps) |-> slot(ps[k])]
         IN  per(2) \o per(1)

_generate_all_slots(date, events) ==
    IF weekday(date) = 6 THEN <<>>
    ELSE LET date_events ==
                 SortByStart(SelectSeq(events, LAMBDA e : e.date = date))
             slot(p) == [date |-> date, time |-> p.start,
                         end_time |-> p.end, available |-> TRUE]
             per(i) == LET ps == _find_available_periods(business_periods[i],
                                                         date_events)
                       IN  [k \in 1..Len(ps) |-> slot(ps[k])]
         IN  per(1) \o per(2)

(***************************************************************************)
(* Messages.  The keyword tables (data/keywords.json) are matched with     *)
(* "keyword in message": a message is the set of keyword classes of which  *)
(* it contains a keyword, plus the payload its text carries.               *)
(***************************************************************************)
HasKw(m, class) == class \in m.kw

\* the value None where a time string is expected
NoneTime == [w |-> 0, h |-> 0, m |-> 0]

\* the services and staff the model offers
Services == {"cut", "color"}
StaffNames == {"tanaka", "sato"}

\* services[service]["duration"]
service_duration(service) == IF service = "cut" THEN 60 ELSE 120

\* profile.display_name of a LINE user
_get_line_display_name(user_id) ==
    CASE user_id = "U1" -> "Aoi"
      [] user_id = "U2" -> "Ren"
      [] user_id = "U4" -> "Ren"
      [] OTHER -> "Mio"

(***************************************************************************)
(* The result of a handler: the new user_states, calendar and sheet, the   *)
(* reply (by kind; "None" when get_response returns None) and the          *)
(* persistence calls it made.                                              *)
(***************************************************************************)
Res(us, cal, sh, reply, calls) ==
    [us |-> us, cal |-> cal, sh |-> sh, reply |-> reply, calls |-> calls]

SetKey(us, u, k, v) == Put(us, u, Put(us[u], k, v))
SetData(us, u, k, v) == SetKey(us, u, "data", Put(us[u].data, k, v))

CreateSteps == {"service_selection", "staff_selection", "date_selection",
                "time_selection", "confirmation"}
CancelSteps == {"cancel_select_reservation", "cancel_confirm"}
ModifySteps == {"modify_select_reservation", "modify_select_field",
                "modify_time_date_select", "modify_time_input_date",
                "modify_confirm"}

\* _calculate_time_duration_minutes
_calculate_time_duration_minutes(start_time, end_time) ==
    (end_time.h * 60 + end_time.m) - (start_time.h * 60 + start_time.m)

_calculate_optimal_end_time_fixed_length(start_time, service_duration_minutes) ==
    LET end_total_minutes == start_time.h * 60 + start_time.m + 90
    IN  [w |-> 2, h |-> end_total_minutes \div 60, m |-> end_total_minutes % 60]

\* _calculate_optimal_end_time: f"{end_hour:02d}:{end_minute:02d}"
_calculate_optimal_end_time(start_time, service_duration_minutes) ==
    LET end_total_minutes ==
            start_time.h * 60 + start_time.m + service_duration_minutes
    IN  [w |-> 2, h |-> end_total_minutes \div 60, m |-> end_total_minutes % 60]

\* _get_available_slots: the slots of selected_date; when the calendar
\* cannot be read get_available_slots answers with the fallback slots
_get_available_slots(selected_date, env) ==
    IF env.cal_ok
    THEN _generate_all_slots(selected_date, calendar)
    ELSE _generate_all_slots(selected_date, <<>>)

\* _parse_time_range: both patterns keep the two times as typed
_parse_time_range(m) ==
    IF /\ m.body.kind = "time_range"
       /\ m.body.start_time.h <= 23 /\ m.body.start_time.m <= 59
       /\ m.body.end_time.h <= 23 /\ m.body.end_time.m <= 59
    THEN [start_time |-> m.body.start_time, end_time |-> m.body.end_time]
    ELSE [start_time |-> NoneTime, end_time |-> NoneTime]

\* the texts f"RES-{date_part}-{counter:04d}" of the modelled counters
ReservationIdText ==
    [d \in Dates |->
        IF d = "2025-01-15"
        THEN <<"RES-20250115-0000", "RES-20250115-0001", "RES-20250115-0002">>
        ELSE <<"RES-20250119-0000", "RES-20250119-0001", "RES-20250119-0002">>]

\* generate_reservation_id: counter is int(time.time() * 1000) % 10000
generate_reservation_id(date_str, counter) ==
    ReservationIdText[date_str][counter + 1]

(***************************************************************************)
(* Create flow (reservation_flow.py).                                      *)
(***************************************************************************)
_start_reservation_skips_service(us, u) ==
    Res(SetKey(us, u, "step", "staff_selection"), calendar, sheet,
        "ask_service", {})

_start_reservation(us, u) ==
    Res(SetKey(us, u, "step", "service_selection"), calendar, sheet,
        "ask_service", {})

_handle_service_selection(us, u, m) ==
    IF HasKw(m, "flow_cancel")
    THEN Res(Del(us, u), calendar, sheet, "reservation_cancelled", {})
    ELSE IF m.body.kind # "service"
    THEN Res(us, calendar, sheet, "no_such_service", {})
    ELSE Res(SetKey(SetData(us, u, "service", m.body.service),
                    u, "step", "staff_selection"),
             calendar, sheet, "ask_staff", {})

_handle_staff_selection_drops_service(us, u, m) ==
    IF HasKw(m, "flow_cancel")
    THEN Res(Del(us, u), calendar, sheet, "reservation_cancelled", {})
    ELSE IF HasKw(m, "service_change")
    THEN _start_reservation(SetKey(us, u, "step", "service_selection"), u)
    ELSE IF m.body.kind # "staff"
    THEN Res(us, calendar, sheet, "no_such_staff", {})
    ELSE Res(SetKey(SetKey(us, u, "data",
                           Put(Del(us[u].data, "service"), "staff", m.body.staff)),
                    u, "step", "date_selection"),
             calendar, sheet, "ask_date", {})
_handle_staff_selection(us, u, m) ==
    IF HasKw(m, "flow_cancel")
    THEN Res(Del(us, u), calendar, sheet, "reservation_cancelled", {})
    ELSE IF HasKw(m, "service_change")
    THEN _start_reservation(SetKey(us, u, "step", "service_selection"), u)
    ELSE IF m.body.kind # "staff"
    THEN Res(us, calendar, sheet, "no_such_staff", {})
    ELSE Res(SetKey(SetData(us, u, "staff", m.body.staff),
                    u, "step", "date_selection"),
             calendar, sheet, "ask_date", {})

_handle_date_selection(us, u, m, env) ==
    IF HasKw(m, "flow_cancel")
    THEN Res(Del(us, u), calendar, sheet, "reservation_cancelled", {})
    ELSE IF HasKw(m, "service_change")
    THEN _start_reservation(SetKey(us, u, "step", "service_selection"), u)
    ELSE IF m.body.kind # "date"
    THEN Res(us, calendar, sheet, "bad_date_format", {})
    ELSE LET selected_date == m.body.date
             us1 == SetKey(SetData(us, u, "date", selected_date),
                           u, "step", "time_selection")
             available_periods == _get_available_slots(selected_date, env)
         IN  IF available_periods = <<>>
             THEN Res(SetKey(us1, u, "step", "date_selection"),
                      calendar, sheet, "date_full", {})
             ELSE Res(us1, calendar, sheet, "ask_time", {})

\* some available period contains start_time~end_time, compared as strings
WithinPeriod(available_periods, start_time, end_time) ==
    \E k \in 1..Len(available_periods) :
        /\ StrLE(available_periods[k].time, start_time)
        /\ StrLE(end_time, available_periods[k].end_time)

_handle_time_selection(us, u, m, env) ==
    IF HasKw(m, "flow_cancel")
    THEN Res(Del(us, u), calendar, sheet, "reservation_cancelled", {})
    ELSE IF HasKw(m, "date_change")
    THEN Res(SetKey(us, u, "step", "date_selection"), calendar, sheet,
             "ask_date", {})
    ELSE
    LET selected_date == us[u].data.date
        available_periods == _get_available_slots(selected_date, env)
        parsed == _parse_time_range(m)
        start_time == parsed.start_time
        end_time == parsed.end_time
        us1 == SetData(us, u, "original_end_time", end_time)
        required_duration == service_duration(us[u].data.service)
        selected_duration == _calculate_time_duration_minutes(start_time, end_time)
        optimal_end_time == _calculate_optimal_end_time(start_time, required_duration)
        is_optimal_valid == /\ selected_duration > required_duration
                            /\ WithinPeriod(available_periods, start_time,
                                            optimal_end_time)
        final_end_time == IF is_optimal_valid THEN optimal_end_time ELSE end_time
        final_duration == IF is_optimal_valid THEN required_duration
                          ELSE selected_duration
    IN  IF start_time = NoneTime \/ end_time = NoneTime
        THEN Res(us1, calendar, sheet, "bad_time_format", {})
        ELSE IF StrGE(start_time, end_time)
        THEN Res(SetKey(us1, u, "step", "time_selection"), calendar, sheet,
                 "time_inverted", {})
        ELSE IF ~WithinPeriod(available_periods, start_time, end_time)
        THEN Res(us1, calendar, sheet, "time_not_available", {})
        ELSE IF final_duration < required_duration
        THEN Res(SetKey(us1, u, "step", "time_selection"), calendar, sheet,
                 "time_too_short", {})
        ELSE Res(SetKey(SetData(SetData(SetData(us1,
                     u, "start_time", start_time),
                     u, "end_time", final_end_time),
                     u, "time", start_time),
                     u, "step", "confirmation"),
                 calendar, sheet, "ask_confirmation", {})

\* create_reservation_event: the event inserted for reservation_data
NewEvent(reservation_data, client_name) ==
    [id |-> reservation_data.reservation_id,
     date |-> reservation_data.date,
     start |-> strptime_HM(reservation_data.start_time),
     end |-> strptime_HM(reservation_data.end_time),
     service |-> reservation_data.service,
     staff |-> reservation_data.staff,
     client |-> client_name]

\* save_reservation: the row appended for sheet_reservation_data
NewRow(reservation_data, client_name) ==
    [reservation_id |-> reservation_data.reservation_id,
     user_id |-> "",
     client_name |-> client_name,
     date |-> reservation_data.date,
     start_time |-> reservation_data.start_time,
     end_time |-> reservation_data.end_time,
     service |-> reservation_data.service,
     staff |-> reservation_data.staff,
     duration |-> service_duration(reservation_data.service),
     status |-> "Confirmed"]

_handle_confirmation(us, u, m, env) ==
    IF HasKw(m, "yes")
    THEN LET reservation_id ==
                 generate_reservation_id(us[u].data.date, env.counter)
             reservation_data == Put(us[u].data, "reservation_id", reservation_id)
             client_name == _get_line_display_name(u)
             calendar_success == env.cal_ok
             sheets_success == env.sheet_ok
         IN  Res(SetKey(us, u, "data", reservation_data),
                 IF calendar_success
                 THEN Append(calendar, NewEvent(reservation_data, client_name))
                 ELSE calendar,
                 IF sheets_success
                 THEN Append(sheet, NewRow(reservation_data, client_name))
                 ELSE sheet,
                 "reservation_confirmed",
                 {"create_reservation_event", "save_reservation"})
    ELSE Res(us, calendar, sheet, "reservation_cancelled", {})

handle_reservation_flow_clears_all(u, m, env) ==
    LET us == IF u \in DOMAIN user_states THEN user_states
              ELSE Put(user_states, u, [step |-> "start", data |-> EmptyDict])
        step == us[u].step
    IN  IF HasKw(m, "flow_cancel")
        THEN Res(EmptyDict, calendar, sheet, "reservation_cancelled", {})
        ELSE CASE step = "start" -> _start_reservation(us, u)
               [] step = "service_selection" -> _handle_service_selection(us, u, m)
               [] step = "staff_selection" -> _handle_staff_selection(us, u, m)
               [] step = "date_selection" -> _handle_date_selection(us, u, m, env)
               [] step = "time_selection" -> _handle_time_selection(us, u, m, env)
               [] step = "confirmation" -> _handle_confirmation(us, u, m, env)
               [] OTHER -> Res(us, calendar, sheet, "flow_problem", {})
handle_reservation_flow(u, m, env) ==
    LET us == IF u \in DOMAIN user_states THEN user_states
              ELSE Put(user_states, u, [step |-> "start", data |-> EmptyDict])
        step == us[u].step
    IN  IF HasKw(m, "flow_cancel")
        THEN Res(Del(us, u), calendar, sheet, "reservation_cancelled", {})
        ELSE CASE step = "start" -> _start_reservation(us, u)
               [] step = "service_selection" -> _handle_service_selection(us, u, m)
               [] step = "staff_selection" -> _handle_staff_selection(us, u, m)
               [] step = "date_selection" -> _handle_date_selection(us, u, m, env)
               [] step = "time_selection" -> _handle_time_selection(us, u, m, env)
               [] step = "confirmation" -> _handle_confirmation(us, u, m, env)
               [] OTHER -> Res(us, calendar, sheet, "flow_problem", {})

(***************************************************************************)
(* Sheet and calendar look-ups (google_sheets_logger.py,                   *)
(* google_calendar.py).                                                    *)
(***************************************************************************)
\* get_all_reservations: the rows whose status is "Confirmed"
get_all_reservations == SelectSeq(sheet, LAMBDA r : r.status = "Confirmed")

\* get_user_reservations: those of a client name
get_user_reservations(client_name) ==
    SelectSeq(get_all_reservations, LAMBDA r : r.client_name = client_name)

\* index of the first row carrying reservation_id, 0 when there is none
RowIndex(reservation_id) ==
    LET hits == { i \in 1..Len(sheet) : sheet[i].reservation_id = reservation_id }
    IN  IF hits = {} THEN 0 ELSE CHOOSE i \in hits : \A j \in hits : i <= j

\* the event description holds the id, the service, the staff and the client
DescriptionContains(event, text) ==
    text \in {event.id, event.service, event.staff, event.client}

\* get_reservation_by_id: position in the calendar of the first event, in
\* start-time order, whose description contains the text; 0 when none
get_reservation_by_id(text) ==
    LET hits == { i \in 1..Len(calendar) : DescriptionContains(calendar[i], text) }
        first(i) == \A j \in hits :
                        \/ calendar[i].start < calendar[j].start
                        \/ calendar[i].start = calendar[j].start /\ i <= j
    IN  IF hits = {} THEN 0 ELSE CHOOSE i \in hits : first(i)

RemoveAt(seq, i) == [k \in 1..(Len(seq) - 1) |-> IF k < i THEN seq[k] ELSE seq[k + 1]]

\* get_events_for_date: the events of the date, none when the call fails
get_events_for_date(date_str, env) ==
    IF env.cal_ok
    THEN SelectSeq(calendar, LAMBDA e : e.date = date_str)
    ELSE <<>>

\* _filter_events_by_staff: the events whose summary
\* "[予約] SERVICE - CLIENT (STAFF)" names the staff member
_filter_events_by_staff(events, staff_name) ==
    SelectSeq(events, LAMBDA e : e.staff = staff_name)

\* check_staff_availability_for_time: TRUE when no event of the staff member,
\* other than the excluded reservation, overlaps [start_time, end_time)
check_staff_availability_for_time_any_staff(date_str, start_time, end_time, staff_name, exclude_reservation_id, env) ==
    \A i \in 1..Len(get_events_for_date(date_str, env)) :
        LET event == get_events_for_date(date_str, env)[i]
        IN  \/ exclude_reservation_id # "" /\ event.id = exclude_reservation_id
            \/ ~(strptime_HM(start_time) < event.end
                   /\ strptime_HM(end_time) > event.start)
check_staff_availability_for_time(date_str, start_time, end_time, staff_name, exclude_reservation_id, env) ==
    LET staff_events == _filter_events_by_staff(get_events_for_date(date_str, env),
                                                staff_name)
    IN  \A i \in 1..Len(staff_events) :
            \/ exclude_reservation_id # "" /\ staff_events[i].id = exclude_reservation_id
            \/ ~(strptime_HM(start_time) < staff_events[i].end
                   /\ strptime_HM(end_time) > staff_events[i].start)

\* get_available_slots_for_modification(date_str, exclude_reservation_id)
get_available_slots_for_modification_no_exclusion(date_str, exclude_reservation_id, env) ==
    IF env.cal_ok
    THEN _generate_all_slots(date_str, calendar)
    ELSE _generate_all_slots(date_str, <<>>)
get_available_slots_for_modification(date_str, exclude_reservation_id, env) ==
    IF env.cal_ok
    THEN _generate_all_slots(date_str,
             SelectSeq(calendar, LAMBDA e : e.id # exclude_reservation_id))
    ELSE _generate_all_slots(date_str, <<>>)

\* _calculate_slot_duration
_calculate_slot_duration(slot) ==
    strptime_HM(slot.end_time) - strptime_HM(slot.time)

\* get_available_slots_for_service
get_available_slots_for_service(date_str, service_name, exclude_reservation_id, env) ==
    SelectSeq(get_available_slots_for_modification(date_str,
                                                   exclude_reservation_id, env),
              LAMBDA slot : _calculate_slot_duration(slot)
                                >= service_duration(service_name))

\* modify_reservation_time(reservation_id, new_date, new_time): the event
\* found keeps its duration and moves to new_date new_time
modify_reservation_time(text, new_date, new_time, env) ==
    LET i == get_reservation_by_id(text)
    IN  IF ~env.cal_ok \/ i = 0
        THEN [ok |-> FALSE, cal |-> calendar]
        ELSE [ok |-> TRUE,
              cal |-> [calendar EXCEPT
                         ![i].date = new_date,
                         ![i].start = strptime_HM(new_time),
                         ![i].end = strptime_HM(new_time)
                                      + (calendar[i].end - calendar[i].start)]]

\* update_reservation_data: the first row with the id gets the new fields
update_reservation_data(reservation_id, field_updates, env) ==
    LET i == RowIndex(reservation_id)
    IN  IF ~env.sheet_ok \/ i = 0
        THEN [ok |-> FALSE, sh |-> sheet]
        ELSE [ok |-> TRUE,
              sh |-> [sheet EXCEPT ![i] = field_updates @@ sheet[i]]]

(***************************************************************************)
(* Cancel flow (reservation_flow.py).                                      *)
(***************************************************************************)
\* _show_user_reservations_for_cancellation and ..._for_modification
ShowUserReservations(us, u, env, listed) ==
    LET reservations == IF env.lookup = "ok"
                        THEN get_user_reservations(_get_line_display_name(u))
                        ELSE <<>>
    IN  IF env.lookup = "raise"
        THEN Res(us, calendar, sheet, "sorry_lookup_error", {})
        ELSE IF reservations = <<>>
        THEN Res(us, calendar, sheet, "sorry_no_reservations", {})
        ELSE Res(SetKey(us, u, "user_reservations", reservations),
                 calendar, sheet, listed, {})

_show_user_reservations_for_cancellation(us, u, env) ==
    ShowUserReservations(us, u, env, "cancel_list")

\* the reservation a selection message picks from the fetched list:
\* <<reservation>> when it picks one, else <<>>
SelectReservation(reservations, m) ==
    IF m.body.kind = "resid"
    THEN LET hits == { i \in 1..Len(reservations) :
                         reservations[i].reservation_id = m.body.id }
         IN  IF hits = {} THEN <<>>
             ELSE << reservations[CHOOSE i \in hits : \A j \in hits : i <= j] >>
    ELSE IF m.body.kind = "number"
    THEN IF 0 <= m.body.n - 1 /\ m.body.n - 1 < Len(reservations)
         THEN << reservations[m.body.n] >>
         ELSE <<>>
    ELSE <<>>

SelectionError(m) ==
    IF m.body.kind = "resid" THEN "id_not_found"
    ELSE IF m.body.kind = "number" THEN "number_out_of_range"
    ELSE "bad_selection_format"

_handle_cancel_reservation_selection(us, u, m) ==
    IF "user_reservations" \notin DOMAIN us[u]
    THEN Res(us, calendar, sheet, "unhandled_exception", {})
    ELSE LET picked == SelectReservation(us[u].user_reservations, m)
         IN  IF picked = <<>>
             THEN Res(us, calendar, sheet, SelectionError(m), {})
             ELSE Res(SetKey(SetKey(us, u, "selected_reservation", picked[1]),
                             u, "step", "cancel_confirm"),
                      calendar, sheet, "ask_cancel_confirmation", {})

_execute_reservation_cancellation(us, u, reservation, env) ==
    LET reservation_id == reservation.reservation_id
        row == RowIndex(reservation_id)
        sheets_success == env.sheet_ok /\ row # 0
        event == get_reservation_by_id(reservation_id)
        calendar_success == env.cal_ok /\ event # 0
    IN  IF ~sheets_success
        THEN Res(us, calendar, sheet, "sorry_cancel_error",
                 {"update_reservation_status"})
        ELSE Res(Del(us, u),
                 IF calendar_success THEN RemoveAt(calendar, event) ELSE calendar,
                 [sheet EXCEPT ![row].status = "Cancelled"],
                 "cancel_complete",
                 {"update_reservation_status", "cancel_reservation_by_id"})

\* _handle_cancel_confirmation without the test for an affirmative keyword
_handle_cancel_confirmation_unconditional(us, u, m, env) ==
    _execute_reservation_cancellation(us, u, us[u].selected_reservation, env)

_handle_cancel_confirmation(us, u, m, env) ==
    IF HasKw(m, "yes")
    THEN _execute_reservation_cancellation(us, u, us[u].selected_reservation, env)
    ELSE IF HasKw(m, "no")
    THEN Res(Del(us, u), calendar, sheet, "cancel_aborted", {})
    ELSE Res(us, calendar, sheet, "ask_yes_or_cancel", {})

\* _handle_cancel_request without the test for a flow-cancel keyword
_handle_cancel_request_no_interrupt(u, m, env) ==
    IF u \notin DOMAIN user_states \/ user_states[u].step \notin CancelSteps
    THEN _show_user_reservations_for_cancellation(
             Put(user_states, u, [step |-> "cancel_select_reservation"]), u, env)
    ELSE IF user_states[u].step = "cancel_select_reservation"
    THEN _handle_cancel_reservation_selection(user_states, u, m)
    ELSE _handle_cancel_confirmation(user_states, u, m, env)

_handle_cancel_request(u, m, env) ==
    IF HasKw(m, "flow_cancel")
    THEN Res(IF u \in DOMAIN user_states THEN Del(user_states, u) ELSE user_states,
             calendar, sheet, "cancel_flow_cancelled", {})
    ELSE IF u \notin DOMAIN user_states \/ user_states[u].step \notin CancelSteps
    THEN _show_user_reservations_for_cancellation(
             Put(user_states, u, [step |-> "cancel_select_reservation"]), u, env)
    ELSE IF user_states[u].step = "cancel_select_reservation"
    THEN _handle_cancel_reservation_selection(user_states, u, m)
    ELSE _handle_cancel_confirmation(user_states, u, m, env)

(***************************************************************************)
(* Modify flow (reservation_flow.py).                                      *)
(***************************************************************************)
_show_user_reservations_for_modification(us, u, env) ==
    ShowUserReservations(us, u, env, "modify_list")

_handle_modify_reservation_selection(us, u, m) ==
    IF "user_reservations" \notin DOMAIN us[u]
    THEN Res(us, calendar, sheet, "unhandled_exception", {})
    ELSE LET picked == SelectReservation(us[u].user_reservations, m)
         IN  IF picked = <<>>
             THEN Res(us, calendar, sheet, SelectionError(m), {})
             ELSE Res(SetKey(SetKey(us, u, "reservation_data", picked[1]),
                             u, "step", "modify_select_field"),
                      calendar, sheet, "ask_field", {})

_handle_time_modification(us, u) ==
    Res(SetKey(SetKey(us, u, "modification_type", "time"),
               u, "step", "modify_time_date_select"),
        calendar, sheet, "ask_same_or_new_date", {})

_handle_service_modification(us, u) ==
    Res(SetKey(SetKey(us, u, "modification_type", "service"),
               u, "step", "modify_confirm"),
        calendar, sheet, "ask_new_service", {})

_handle_staff_modification(us, u) ==
    Res(SetKey(SetKey(us, u, "modification_type", "staff"),
               u, "step", "modify_confirm"),
        calendar, sheet, "ask_new_staff", {})

_handle_field_selection(us, u, m) ==
    IF m.body.kind = "number" /\ m.body.n = 1 THEN _handle_time_modification(us, u)
    ELSE IF m.body.kind = "number" /\ m.body.n = 2
    THEN _handle_service_modification(us, u)
    ELSE IF m.body.kind = "number" /\ m.body.n = 3
    THEN _handle_staff_modification(us, u)
    ELSE IF HasKw(m, "time_change") THEN _handle_time_modification(us, u)
    ELSE IF HasKw(m, "service_change") THEN _handle_service_modification(us, u)
    ELSE IF HasKw(m, "staff_change") THEN _handle_staff_modification(us, u)
    ELSE Res(us, calendar, sheet, "ask_field", {})

\* _show_available_times_for_date: after the state is stored the reply is
\* built with chr(10).join(available_slots) over a list of dicts, which
\* raises; no handler on the way up to handle_message catches it
_show_available_times_for_date(us, u, date, env) ==
    LET reservation == us[u].reservation_data
        available_slots ==
            get_available_slots_for_modification(date,
                                                 reservation.reservation_id, env)
    IN  IF available_slots = <<>>
        THEN Res(us, calendar, sheet, "date_full", {})
        ELSE Res(SetKey(SetKey(SetKey(us, u, "selected_date", date),
                               u, "available_slots", available_slots),
                        u, "step", "modify_confirm"),
                 calendar, sheet, "unhandled_exception", {})

_handle_time_date_selection(us, u, m, env) ==
    IF m.body.kind = "number" /\ m.body.n = 1
    THEN _show_available_times_for_date(us, u, us[u].reservation_data.date, env)
    ELSE IF m.body.kind = "number" /\ m.body.n = 2
    THEN Res(SetKey(us, u, "step", "modify_time_input_date"), calendar, sheet,
             "ask_new_date", {})
    ELSE Res(us, calendar, sheet, "ask_same_or_new_date", {})

\* _handle_time_input_date; the dates of the model are not in the past
_handle_time_input_date(us, u, m, env) ==
    IF m.body.kind # "date"
    THEN Res(us, calendar, sheet, "bad_date_format", {})
    ELSE IF weekday(m.body.date) = 6
    THEN Res(us, calendar, sheet, "sunday_closed", {})
    ELSE _show_available_times_for_date(us, u, m.body.date, env)

_process_time_modification(us, u, m, reservation, env) ==
    LET parsed == _parse_time_range(m)
        start_time == parsed.start_time
        selected_date == IF "selected_date" \in DOMAIN us[u]
                         THEN us[u].selected_date ELSE reservation.date
        duration == service_duration(reservation.service)
        start_dt == strptime_HM(start_time)
        correct_end_dt == start_dt + duration
        correct_end_time == strftime_HM(correct_end_dt % 1440)
        available_slots == us[u].available_slots
        time_is_available ==
            \E k \in 1..Len(available_slots) :
                /\ strptime_HM(available_slots[k].time) <= start_dt
                /\ correct_end_dt <= strptime_HM(available_slots[k].end_time)
        user_duration_minutes == strptime_HM(parsed.end_time) - start_dt
        end_time == IF user_duration_minutes # duration
                    THEN correct_end_time ELSE parsed.end_time
        cal == modify_reservation_time(reservation.client_name, selected_date,
                                       start_time, env)
        field_updates ==
            IF selected_date # reservation.date
            THEN [start_time |-> start_time, end_time |-> end_time,
                  date |-> selected_date]
            ELSE [start_time |-> start_time, end_time |-> end_time]
        sh == update_reservation_data(reservation.reservation_id,
                                      field_updates, env)
    IN  IF start_time = NoneTime \/ parsed.end_time = NoneTime
        THEN Res(us, calendar, sheet, "bad_time_format", {})
        ELSE IF ~time_is_available
        THEN Res(us, calendar, sheet, "time_not_available", {})
        ELSE IF user_duration_minutes <= 0
        THEN Res(us, calendar, sheet, "time_inverted", {})
        ELSE IF ~cal.ok
        THEN Res(us, calendar, sheet, "sorry_calendar_update_failed",
                 {"modify_reservation_time"})
        ELSE Res(Del(us, u), cal.cal, sh.sh, "time_change_complete",
                 {"modify_reservation_time", "update_reservation_data"})

_process_service_modification(us, u, m, reservation, env) ==
    IF m.body.kind # "service"
    THEN Res(us, calendar, sheet, "no_such_service", {})
    ELSE
    LET new_service == m.body.service
        available_slots ==
            get_available_slots_for_service(reservation.date, new_service,
                                            reservation.reservation_id, env)
        cal == modify_reservation_time(reservation.client_name, reservation.date,
                                       reservation.start_time, env)
        sh == update_reservation_data(reservation.reservation_id,
                  [service |-> new_service,
                   duration |-> service_duration(new_service)], env)
    IN  IF available_slots = <<>>
        THEN Res(us, calendar, sheet, "no_time_for_service", {})
        ELSE IF ~cal.ok
        THEN Res(us, calendar, sheet, "sorry_calendar_update_failed",
                 {"modify_reservation_time"})
        ELSE Res(Del(us, u), cal.cal, sh.sh, "service_change_complete",
                 {"modify_reservation_time", "update_reservation_data"})

_process_staff_modification(us, u, m, reservation, env) ==
    IF m.body.kind # "staff"
    THEN Res(us, calendar, sheet, "no_such_staff", {})
    ELSE LET sh == update_reservation_data(reservation.reservation_id,
                                           [staff |-> m.body.staff], env)
         IN  IF ~sh.ok
             THEN Res(us, calendar, sheet, "sorry_staff_update_failed",
                      {"update_reservation_data"})
             ELSE Res(Del(us, u), calendar, sh.sh, "staff_change_complete",
                      {"update_reservation_data"})

_handle_modification_confirmation(us, u, m, env) ==
    LET reservation == us[u].reservation_data
        modification_type == us[u].modification_type
    IN  CASE modification_type = "time" ->
                 _process_time_modification(us, u, m, reservation, env)
          [] modification_type = "service" ->
                 _process_service_modification(us, u, m, reservation, env)
          [] modification_type = "staff" ->
                 _process_staff_modification(us, u, m, reservation, env)
          [] OTHER -> Res(us, calendar, sheet, "sorry_modify_error", {})

_handle_modify_request(u, m, env) ==
    IF HasKw(m, "flow_cancel")
    THEN Res(IF u \in DOMAIN user_states THEN Del(user_states, u) ELSE user_states,
             calendar, sheet, "modify_flow_cancelled", {})
    ELSE IF u \notin DOMAIN user_states \/ user_states[u].step \notin ModifySteps
    THEN _show_user_reservations_for_modification(
             Put(user_states, u, [step |-> "modify_select_reservation"]), u, env)
    ELSE LET step == user_states[u].step
         IN  CASE step = "modify_select_reservation" ->
                      _handle_modify_reservation_selection(user_states, u, m)
               [] step = "modify_select_field" ->
                      _handle_field_selection(user_states, u, m)
               [] step = "modify_time_date_select" ->
                      _handle_time_date_selection(user_states, u, m, env)
               [] step = "modify_time_input_date" ->
                      _handle_time_input_date(user_states, u, m, env)
               [] step = "modify_confirm" ->
                      _handle_modification_confirmation(user_states, u, m, env)

(***************************************************************************)
(* SpecAvail: the availability computation on bounded inputs.              *)
(***************************************************************************)
AvHours == 8..LastHour

\* events of the requested date, on the hour
AvIntervals ==
    { [date |-> "2025-01-15", start |-> a * 60, end |-> b * 60] :
          <<a, b>> \in { p \in AvHours \X AvHours : p[1] < p[2] } }

AvEventLists ==
    UNION { [1..n -> AvIntervals] : n \in 0..MaxEvents }

\* the calendar holding the events: the k-th event is a reservation of its
\* own; the staff alternate, so that both staff members have bookings
AvCalendar(events) ==
    [k \in 1..Len(events) |->
        [id |-> generate_reservation_id(events[k].date, k - 1),
         date |-> events[k].date,
         start |-> events[k].start,
         end |-> events[k].end,
         service |-> "cut",
         staff |-> IF k % 2 = 1 THEN "tanaka" ELSE "sato",
         client |-> "Ren"]]

InitAvail ==
    /\ av_pc = "input"
    /\ av_date \in Dates
    /\ av_events \in AvEventLists
    /\ av_periods = <<>>
    /\ av_slots = <<>>
    /\ av_exclude = ""
    /\ av_check = NoCheck
    /\ user_states = EmptyDict
    /\ calendar = AvCalendar(av_events)
    /\ sheet = <<>>
    /\ last = NoLast
    /\ failures = 0
    /\ writes = 0
    /\ requests = <<>>
    /\ consented = Consented
    /\ reminders = NoReminders
    /\ scheduler = NoScheduler

\* get_available_slots: the calendar returns the events ordered by start
\* time and _generate_all_slots computes the free windows
ComputeSlots ==
    /\ av_pc = "input"
    /\ av_pc' = "done"
    /\ av_periods' = [i \in 1..2 |->
                        _find_available_periods(business_periods[i],
                                                SortByStart(av_events))]
    /\ av_slots' = _generate_all_slots(av_date, av_events)
    /\ UNCHANGED <<av_date, av_events, av_exclude, av_check>>
    /\ UNCHANGED flow_vars

\* get_available_slots_for_modification for one reservation of the calendar
ComputeSlotsForModification ==
    /\ av_pc = "input"
    /\ \E i \in 1..Len(calendar) :
           /\ av_exclude' = calendar[i].id
           /\ av_slots' = get_available_slots_for_modification(
                              av_date, calendar[i].id,
                              [cal_ok |-> TRUE, sheet_ok |-> TRUE,
                               line_ok |-> TRUE, counter |-> 0, lookup |-> "ok"])
    /\ av_pc' = "done_modification"
    /\ UNCHANGED <<av_date, av_events, av_periods, av_check>>
    /\ UNCHANGED flow_vars

\* the intervals asked about in a staff availability check
CheckIntervals ==
    { [start |-> 10 * 60, end |-> 11 * 60],
      [start |-> 10 * 60, end |-> 12 * 60],
      [start |-> 13 * 60, end |-> 15 * 60] }

\* check_staff_availability_for_time for one staff member and one interval,
\* with no reservation or one reservation of the calendar excluded
CheckStaffAvailabilityForTime ==
    /\ av_pc = "input"
    /\ \E staff_name \in StaffNames, iv \in CheckIntervals,
          exclude_reservation_id \in {""} \cup { calendar[i].id : i \in 1..Len(calendar) } :
           av_check' = [staff |-> staff_name, start |-> iv.start, end |-> iv.end,
                        exclude |-> exclude_reservation_id,
                        available |-> check_staff_availability_for_time(
                                          av_date, strftime_HM(iv.start),
                                          strftime_HM(iv.end), staff_name,
                                          exclude_reservation_id,
                                          [cal_ok |-> TRUE, sheet_ok |-> TRUE,
                                           line_ok |-> TRUE, counter |-> 0,
                                           lookup |-> "ok"])]
    /\ av_pc' = "done_staff_check"
    /\ UNCHANGED <<av_date, av_events, av_periods, av_slots, av_exclude>>
    /\ UNCHANGED flow_vars

NextAvail ==
    \/ ComputeSlots
    \/ ComputeSlotsForModification
    \/ CheckStaffAvailabilityForTime

SpecAvail == InitAvail /\ [][NextAvail]_vars

(***************************************************************************)
(* Properties of the availability computation (checked under SpecAvail).   *)
(***************************************************************************)
\* a free window as a pair of minutes after midnight
WindowIv(w) == [s |-> strptime_HM(w.start), e |-> strptime_HM(w.end)]
EventIv(ev) == [s |-> ev.start, e |-> ev.end]

\* half-open interval overlap
Overlaps(a, b) == a.s < b.e /\ a.e > b.s

PeriodIv(i) == [s |-> business_periods[i].start * 60,
                e |-> business_periods[i].end * 60]

Inside(a, p) == p.s <= a.s /\ a.s < a.e /\ a.e <= p.e

RECURSIVE SumLen(_)
SumLen(ivs) == IF ivs = <<>> THEN 0
               ELSE (Head(ivs).e - Head(ivs).s) + SumLen(Tail(ivs))

\* the intervals of ivs cover p exactly, without gap and without overlap
Tiles(ivs, p) ==
    /\ \A k \in 1..Len(ivs) : Inside(ivs[k], p)
    /\ \A k, l \in 1..Len(ivs) : k # l => ~Overlaps(ivs[k], ivs[l])
    /\ SumLen(ivs) = p.e - p.s

\* the events lie inside business periods and do not overlap each other
BlocksInsidePeriods ==
    /\ \A k \in 1..Len(av_events) :
           \E i \in 1..2 : Inside(EventIv(av_events[k]), PeriodIv(i))
    /\ \A k, l \in 1..Len(av_events) :
           k # l => ~Overlaps(EventIv(av_events[k]), EventIv(av_events[l]))

WindowsAndBlocks(i) ==
    [k \in 1..Len(av_periods[i]) |-> WindowIv(av_periods[i][k])]
    \o SelectSeq([k \in 1..Len(av_events) |-> EventIv(av_events[k])],
                 LAMBDA b : Inside(b, PeriodIv(i)))

\* C8: for each business period and pairwise non-overlapping blocking
\* intervals lying inside the business periods, the free windows returned
\* for the period together with the blocking intervals inside it tile the
\* period exactly (no gap, no overlap)
C8_GapFindingTiles ==
    (av_pc = "done" /\ BlocksInsidePeriods) =>
        \A i \in 1..2 : Tiles(WindowsAndBlocks(i), PeriodIv(i))

\* C8 witness: the scenario of one block 10:00-11:00, answered with
\* 09:00-10:00, 11:00-12:00 and 13:00-18:00
C8_Witness ==
    /\ av_pc = "done"
    /\ av_date = "2025-01-15"
    /\ av_events = << [date |-> "2025-01-15", start |-> 600, end |-> 660] >>
    /\ [k \in 1..Len(av_slots) |-> <<av_slots[k].time, av_slots[k].end_time>>]
         = << <<strftime_HM(540), strftime_HM(600)>>,
              <<strftime_HM(660), strftime_HM(720)>>,
              <<strftime_HM(780), strftime_HM(1080)>> >>

\* C9 (as claimed): for any blocking intervals, also overlapping ones, no
\* returned free window intersects a blocking interval
C9_NoWindowIntersectsBlock ==
    av_pc = "done" =>
        \A i \in 1..2 : \A k \in 1..Len(av_periods[i]) :
            \A l \in 1..Len(av_events) :
                ~Overlaps(WindowIv(av_periods[i][k]), EventIv(av_events[l]))

\* C10 (as claimed): an interval that starts before a business period and
\* ends inside it truncates availability: every free window of that period
\* starts at or after the interval's end
C10_EarlyStartTruncates ==
    av_pc = "done" =>
        \A i \in 1..2 : \A l \in 1..Len(av_events) :
            LET b == EventIv(av_events[l])
                p == PeriodIv(i)
            IN  (b.s < p.s /\ p.s < b.e /\ b.e <= p.e) =>
                    \A k \in 1..Len(av_periods[i]) :
                        WindowIv(av_periods[i][k]).s >= b.e

(***************************************************************************)
(* Routing (reservation_flow.py) and the webhook handler (index.py).       *)
(***************************************************************************)
StepOf(u) == IF u \in DOMAIN user_states THEN user_states[u].step ELSE "none"

detect_intent_keywords_first(m, u) ==
    IF m.body.kind = "resid" /\ StepOf(u) = "none" THEN "general"
    ELSE IF HasKw(m, "reservation") THEN "reservation"
    ELSE IF HasKw(m, "modify") THEN "modify"
    ELSE IF HasKw(m, "cancel") THEN "cancel"
    ELSE IF StepOf(u) \in CreateSteps THEN "reservation_flow"
    ELSE IF StepOf(u) \in CancelSteps THEN "cancel"
    ELSE IF StepOf(u) \in ModifySteps THEN "modify"
    ELSE "general"

\* detect_intent
detect_intent(m, u) ==
    IF StepOf(u) \in CreateSteps THEN "reservation_flow"
    ELSE IF StepOf(u) \in CancelSteps THEN "cancel"
    ELSE IF StepOf(u) \in ModifySteps THEN "modify"
    ELSE IF m.body.kind = "resid" THEN "general"
    ELSE IF HasKw(m, "reservation") THEN "reservation"
    ELSE IF HasKw(m, "modify") THEN "modify"
    ELSE IF HasKw(m, "cancel") THEN "cancel"
    ELSE "general"

\* get_response
get_response(u, m, env) ==
    LET intent == detect_intent(m, u)
    IN  CASE intent \in {"reservation", "reservation_flow"} ->
                 handle_reservation_flow(u, m, env)
          [] intent = "modify" -> _handle_modify_request(u, m, env)
          [] intent = "cancel" -> _handle_cancel_request(u, m, env)
          [] OTHER -> Res(user_states, calendar, sheet, "None", {})

\* the keywords of a message that the record of its handling keeps
Recorded == {"yes", "flow_cancel"}

\* handle_message: get_response, the reply, and the clearing of the state
\* after a confirmed reservation was logged.  An exception out of
\* get_response, or a failure to send the reply, returns before the clearing.
\* the number of calls to an outside service that fail under env
Failed(env) ==
    Cardinality({ k \in {"cal_ok", "sheet_ok", "line_ok"} : ~env[k] })
        + (IF env.lookup = "ok" THEN 0 ELSE 1)

\* the state is cleared when the reply was sent and a confirmed reservation
\* was logged
Cleared(u, m, env, r) ==
    /\ env.line_ok
    /\ r.reply \notin {"unhandled_exception", "None"}
    /\ u \in DOMAIN r.us
    /\ r.us[u].step = "confirmation"
    /\ HasKw(m, "yes")

\* the part of handle_message after get_response returned r
Reply(u, m, env, r) ==
    /\ failures + Failed(env) <= MaxFailures
    /\ failures' = failures + Failed(env)
    /\ writes + (IF r.calls = {} THEN 0 ELSE 1) <= MaxWrites
    /\ writes' = writes + (IF r.calls = {} THEN 0 ELSE 1)
    /\ user_states' = IF Cleared(u, m, env, r) THEN Del(r.us, u) ELSE r.us
    /\ calendar' = r.cal
    /\ sheet' = r.sh
    /\ last' = [user |-> u, step |-> StepOf(u), kw |-> m.kw \cap Recorded,
                     msg |-> m,
                reply |-> r.reply, calls |-> r.calls]
    /\ UNCHANGED av_vars
    /\ UNCHANGED job_vars

\* handle_message returns after its own reply, get_response is not called
Returned(u, m, env, reply) ==
    /\ failures + Failed(env) <= MaxFailures
    /\ failures' = failures + Failed(env)
    /\ last' = [user |-> u, step |-> StepOf(u), kw |-> m.kw \cap Recorded,
                     msg |-> m,
                reply |-> reply, calls |-> {}]
    /\ UNCHANGED <<user_states, calendar, sheet, writes>>
    /\ UNCHANGED av_vars
    /\ UNCHANGED job_vars

\* handle_consent_screen: the terms are sent
handle_consent_screen(u, m, env) ==
    /\ Returned(u, m, env, "consent_screen")
    /\ UNCHANGED consented

\* handle_consent_response: the user is marked after the welcome reply was
\* sent; an exception of the reply is logged and nothing is marked
handle_consent_response(u, m, env) ==
    /\ Returned(u, m, env, IF m.body.text = "agree" THEN "welcome" ELSE "goodbye")
    /\ consented' = IF m.body.text = "agree" /\ env.line_ok
                     THEN consented \cup {u}
                     ELSE consented

\* handle_message.  The consent check and the reply of the consent reminder
\* share one try block: when the reply raises, the exception is logged and
\* the handling goes on as for a user who has consented
handle_message(u, m, env) ==
    IF m.body.kind # "consent" /\ u \notin consented /\ env.line_ok
    THEN /\ Returned(u, m, env, "consent_required")
         /\ UNCHANGED consented
    ELSE IF m.body.kind = "consent" /\ m.body.text = "open"
    THEN handle_consent_screen(u, m, env)
    ELSE IF m.body.kind = "consent"
    THEN handle_consent_response(u, m, env)
    ELSE /\ Reply(u, m, env, get_response(u, m, env))
         /\ UNCHANGED consented

(***************************************************************************)
(* The users, the messages they send and the outcomes of the outside       *)
(* services.                                                               *)
(***************************************************************************)
\* the user of Spec, who sends every message, and the two users of SpecPair,
\* who send the messages of one reservation each
Users == {"U1"}
Pair == {"U2", "U3"}


KwSets == { {"reservation"}, {"modify"}, {"cancel"}, {"yes"}, {"no"},
            {"service_change"}, {"date_change"},
            {"no", "flow_cancel"}, {"cancel", "no", "flow_cancel"},
            {"yes", "flow_cancel"}, {"reservation", "yes"},
            {"reservation", "modify", "cancel"} }

NoBody == [kind |-> "none"]

HM(w, h) == [w |-> w, h |-> h, m |-> 0]

\* the time ranges a user types: one hour, two hours, with a one-digit hour,
\* end before start, and the hour that Init has booked
InputRanges == { <<HM(2, 10), HM(2, 11)>>, <<HM(2, 9), HM(2, 11)>>,
                 <<HM(1, 9), HM(2, 10)>>, <<HM(2, 11), HM(2, 10)>>,
                 <<HM(2, 11), HM(2, 12)>> }

Bodies ==
    { [kind |-> "other"], [kind |-> "bad_date"] }
    \cup { [kind |-> "service", service |-> s] : s \in Services }
    \cup { [kind |-> "staff", staff |-> s] : s \in StaffNames }
    \cup { [kind |-> "date", date |-> d] : d \in Dates }
    \cup { [kind |-> "time_range", start_time |-> r[1], end_time |-> r[2]] :
               r \in InputRanges }
    \cup { [kind |-> "number", n |-> n] : n \in {1, 2, 3} }
    \cup { [kind |-> "resid", id |-> ReservationIdText["2025-01-15"][c + 1]] :
               c \in 0..MaxCounter }

\* a flow-cancel keyword next to what a step asks for
Interrupts ==
    { [kw |-> {"flow_cancel"}, body |-> b] :
          b \in { [kind |-> "service", service |-> "cut"],
                  [kind |-> "number", n |-> 1],
                  [kind |-> "time_range",
                   start_time |-> HM(2, 10), end_time |-> HM(2, 11)] } }

Messages == { [kw |-> k, body |-> NoBody] : k \in KwSets }
                \cup { [kw |-> {}, body |-> b] : b \in Bodies }
                \cup Interrupts

\* the messages of one reservation
MessagesB ==
    { [kw |-> k, body |-> NoBody] :
          k \in { {"reservation"}, {"yes"}, {"no"}, {"no", "flow_cancel"} } }
    \cup { [kw |-> {}, body |-> b] :
               b \in { [kind |-> "service", service |-> "cut"],
                       [kind |-> "staff", staff |-> "tanaka"],
                       [kind |-> "date", date |-> "2025-01-15"],
                       [kind |-> "time_range",
                        start_time |-> HM(2, 10), end_time |-> HM(2, 11)] } }

\* the messages of the Cancel flow and the Modify flow for the first
\* reservation listed
MessagesC ==
    { [kw |-> k, body |-> NoBody] :
          k \in { {"cancel"}, {"modify"}, {"yes"}, {"no"}, {"no", "flow_cancel"} } }
    \cup { [kw |-> {}, body |-> b] :
               b \in { [kind |-> "number", n |-> 1],
                       [kind |-> "number", n |-> 2],
                       [kind |-> "service", service |-> "color"],
                       [kind |-> "time_range",
                        start_time |-> HM(2, 10), end_time |-> HM(2, 11)] } }

MessagesOf(u) ==
    IF u = "U1" THEN Messages ELSE IF u = "U4" THEN MessagesC ELSE MessagesB

Env(cal_ok, sheet_ok, line_ok, counter, lookup) ==
    [cal_ok |-> cal_ok, sheet_ok |-> sheet_ok, line_ok |-> line_ok,
     counter |-> counter, lookup |-> lookup]

\* no outside service is called that can fail
EnvsReply == { Env(TRUE, TRUE, TRUE, 0, "ok") }
\* the calendar is read
EnvsCalendar == { Env(c, TRUE, TRUE, 0, "ok") : c \in BOOLEAN }
\* a reservation is committed, and the state is cleared after the reply.
\* The clock digits either repeat an id in use or are the next unused ones:
\* ids are only compared for equality.
UsedIds == ({ calendar[i].id : i \in 1..Len(calendar) }
                \cup { sheet[i].reservation_id : i \in 1..Len(sheet) })
               \cap { generate_reservation_id(d, k) : d \in Dates, k \in 0..MaxCounter }
EnvsCommit == { Env(c, s, l, n, "ok") :
                    c \in BOOLEAN, s \in BOOLEAN, l \in BOOLEAN,
                    n \in { k \in 0..MaxCounter : k <= Cardinality(UsedIds) } }
\* the calendar and the sheet are written
EnvsStore == { Env(c, s, TRUE, 0, "ok") : c \in BOOLEAN, s \in BOOLEAN }
\* the user's reservations are looked up
EnvsLookup == { Env(TRUE, TRUE, TRUE, 0, k) : k \in {"ok", "fail", "raise"} }

(***************************************************************************)
(* Spec: one action per handler that a message can be routed to.           *)
(***************************************************************************)
\* a reservation of another client, made before the process started
Booked ==
    [reservation_id |-> "RES-20250115-7302",
     date |-> "2025-01-15", start_time |-> HM(2, 11), end_time |-> HM(2, 12),
     service |-> "cut", staff |-> "tanaka"]

Init ==
    /\ user_states = EmptyDict
    /\ calendar = << NewEvent(Booked, "Ren") >>
    /\ sheet = << NewRow(Booked, "Ren") >>
    /\ last = NoLast
    /\ failures = 0
    /\ writes = 0
    /\ requests = <<>>
    /\ consented = Consented
    /\ reminders = NoReminders
    /\ scheduler = NoScheduler
    /\ av_pc = "input"
    /\ av_date = "2025-01-15"
    /\ av_events = <<>>
    /\ av_periods = <<>>
    /\ av_slots = <<>>
    /\ av_exclude = ""
    /\ av_check = NoCheck

InitPair ==
    /\ user_states = EmptyDict
    /\ calendar = <<>>
    /\ sheet = <<>>
    /\ last = NoLast
    /\ failures = 0
    /\ writes = 0
    /\ requests = <<>>
    /\ consented = Consented
    /\ reminders = NoReminders
    /\ scheduler = NoScheduler
    /\ av_pc = "input"
    /\ av_date = "2025-01-15"
    /\ av_events = <<>>
    /\ av_periods = <<>>
    /\ av_slots = <<>>
    /\ av_exclude = ""
    /\ av_check = NoCheck

\* a message without a flow-cancel keyword is handled
Handle(u, envs) ==
    /\ \E m \in MessagesOf(u), env \in envs :
           /\ ~HasKw(m, "flow_cancel")
           /\ handle_message(u, m, env)
    /\ UNCHANGED requests

\* a message of a user who is in no flow is handled
Route(u, intent, envs) ==
    /\ \E m \in MessagesOf(u), env \in envs :
           /\ detect_intent(m, u) = intent
           /\ handle_message(u, m, env)
    /\ UNCHANGED requests

\* a message with a flow-cancel keyword, handled at any step of a flow
FlowCancel(u) ==
    /\ StepOf(u) # "none"
    /\ \E m \in MessagesOf(u), env \in EnvsReply :
           /\ HasKw(m, "flow_cancel")
           /\ handle_message(u, m, env)
    /\ UNCHANGED requests

\* a reservation is started while the calendar and the sheet have room
StartReservation(u) ==
    /\ StepOf(u) = "none"
    /\ Len(calendar) < MaxReservations
    /\ Len(sheet) < MaxReservations
    /\ Route(u, "reservation", EnvsReply)

ServiceSelection(u) ==
    /\ StepOf(u) = "service_selection"
    /\ Handle(u, EnvsReply)

StaffSelection(u) ==
    /\ StepOf(u) = "staff_selection"
    /\ Handle(u, EnvsReply)

DateSelection(u) ==
    /\ StepOf(u) = "date_selection"
    /\ Handle(u, EnvsCalendar)

TimeSelection(u) ==
    /\ StepOf(u) = "time_selection"
    /\ Handle(u, EnvsCalendar)

Confirmation(u) ==
    /\ StepOf(u) = "confirmation"
    /\ Handle(u, EnvsCommit)

StartCancel(u) ==
    /\ StepOf(u) = "none"
    /\ Route(u, "cancel", EnvsLookup)

CancelReservationSelection(u) ==
    /\ StepOf(u) = "cancel_select_reservation"
    /\ Handle(u, EnvsReply)

CancelConfirmation(u) ==
    /\ StepOf(u) = "cancel_confirm"
    /\ Handle(u, EnvsStore)

StartModify(u) ==
    /\ StepOf(u) = "none"
    /\ Route(u, "modify", EnvsLookup)

ModifyReservationSelection(u) ==
    /\ StepOf(u) = "modify_select_reservation"
    /\ Handle(u, EnvsReply)

FieldSelection(u) ==
    /\ StepOf(u) = "modify_select_field"
    /\ Handle(u, EnvsReply)

TimeDateSelection(u) ==
    /\ StepOf(u) = "modify_time_date_select"
    /\ Handle(u, EnvsCalendar)

TimeInputDate(u) ==
    /\ StepOf(u) = "modify_time_input_date"
    /\ Handle(u, EnvsCalendar)

ModificationConfirmation(u) ==
    /\ StepOf(u) = "modify_confirm"
    /\ Handle(u, EnvsStore)

\* get_response returns None: the message goes to the FAQ
General(u) ==
    /\ StepOf(u) = "none"
    /\ Route(u, "general", EnvsReply)

Next ==
    \E u \in Users :
        \/ FlowCancel(u)
        \/ StartReservation(u)
        \/ ServiceSelection(u)
        \/ StaffSelection(u)
        \/ DateSelection(u)
        \/ TimeSelection(u)
        \/ Confirmation(u)
        \/ StartCancel(u)
        \/ CancelReservationSelection(u)
        \/ CancelConfirmation(u)
        \/ StartModify(u)
        \/ ModifyReservationSelection(u)
        \/ FieldSelection(u)
        \/ TimeDateSelection(u)
        \/ TimeInputDate(u)
        \/ ModificationConfirmation(u)
        \/ General(u)

Spec == Init /\ [][Next]_vars

\* two users, each in the Create flow
NextPair ==
    \E u \in Pair :
        \/ FlowCancel(u)
        \/ StartReservation(u)
        \/ ServiceSelection(u)
        \/ StaffSelection(u)
        \/ DateSelection(u)
        \/ TimeSelection(u)
        \/ Confirmation(u)

SpecPair == InitPair /\ [][NextPair]_vars

(***************************************************************************)
(* SpecLoop: the webhook requests of two users on the server's event loop. *)
(* callback is a coroutine: it awaits the request body and then calls      *)
(* handler.handle, which runs handle_message to its end without awaiting.  *)
(***************************************************************************)
\* most webhook requests in one behaviour
MaxRequests == 4

\* the messages the requests carry
LoopMessages ==
    { [kw |-> {"reservation"}, body |-> NoBody],
      [kw |-> {"no", "flow_cancel"}, body |-> NoBody],
      [kw |-> {}, body |-> [kind |-> "service", service |-> "cut"]] }

\* the session entry of a user as a handling finds it: a dict with the
\* user's key, or the empty dict
SessionEntry(u) == [k \in DOMAIN user_states \cap {u} |-> user_states[k]]

\* the event loop runs one coroutine at a time, and callback does not
\* await between handler.handle and its return
EventLoopFree_thread_pool == TRUE
EventLoopFree == \A k \in 1..Len(requests) : requests[k].pc # "handling"

InitLoop == InitPair

\* a webhook request arrives: its coroutine awaits the request body
Callback(u) ==
    /\ Len(requests) < MaxRequests
    /\ \E m \in LoopMessages :
           requests' = Append(requests, [user |-> u, msg |-> m, pc |-> "body",
                                         seen |-> EmptyDict])
    /\ UNCHANGED <<user_states, calendar, sheet, last, failures, writes, consented>>
    /\ UNCHANGED av_vars
    /\ UNCHANGED job_vars

\* the body was read and the event loop resumes the coroutine:
\* handler.handle calls handle_message, which finds the user's session
BeginHandle(k) ==
    /\ requests[k].pc = "body"
    /\ EventLoopFree
    /\ requests' = [requests EXCEPT ![k].pc = "handling",
                                    ![k].seen = SessionEntry(requests[k].user)]
    /\ UNCHANGED <<user_states, calendar, sheet, last, failures, writes, consented>>
    /\ UNCHANGED av_vars
    /\ UNCHANGED job_vars

\* handle_message runs to its end and callback returns "OK"
EndHandle(k) ==
    /\ requests[k].pc = "handling"
    /\ \E env \in EnvsReply : handle_message(requests[k].user, requests[k].msg, env)
    /\ requests' = [requests EXCEPT ![k].pc = "done"]

NextLoop ==
    \/ \E u \in Pair : Callback(u)
    \/ \E k \in 1..Len(requests) : BeginHandle(k) \/ EndHandle(k)

SpecLoop == InitLoop /\ [][NextLoop]_vars

(***************************************************************************)
(* SpecShared: two LINE accounts whose display name is the same.  U2 sends *)
(* the messages of the Create flow, U4 those of the Cancel and Modify      *)
(* flows, so every reservation of the sheet was committed by U2.           *)
(***************************************************************************)
Shared == {"U2", "U4"}

InitShared == InitPair

NextShared ==
    \E u \in Shared :
        \/ FlowCancel(u)
        \/ StartReservation(u)
        \/ ServiceSelection(u)
        \/ StaffSelection(u)
        \/ DateSelection(u)
        \/ TimeSelection(u)
        \/ Confirmation(u)
        \/ StartCancel(u)
        \/ CancelReservationSelection(u)
        \/ CancelConfirmation(u)
        \/ StartModify(u)
        \/ ModifyReservationSelection(u)
        \/ FieldSelection(u)
        \/ ModificationConfirmation(u)

SpecShared == InitShared /\ [][NextShared]_vars

(***************************************************************************)
(* SpecTwo: the Modify flow of a user who has two reservations.            *)
(***************************************************************************)
\* the two reservations U1 committed before
Own1 ==
    [reservation_id |-> generate_reservation_id("2025-01-15", 0),
     date |-> "2025-01-15", start_time |-> HM(2, 10), end_time |-> HM(2, 11),
     service |-> "cut", staff |-> "tanaka"]
Own2 ==
    [reservation_id |-> generate_reservation_id("2025-01-15", 1),
     date |-> "2025-01-15", start_time |-> HM(2, 14), end_time |-> HM(2, 15),
     service |-> "cut", staff |-> "sato"]

InitTwo ==
    /\ user_states = EmptyDict
    /\ calendar = << NewEvent(Own1, _get_line_display_name("U1")),
                     NewEvent(Own2, _get_line_display_name("U1")) >>
    /\ sheet = << NewRow(Own1, _get_line_display_name("U1")),
                  NewRow(Own2, _get_line_display_name("U1")) >>
    /\ last = NoLast
    /\ failures = 0
    /\ writes = 0
    /\ requests = <<>>
    /\ consented = Consented
    /\ reminders = NoReminders
    /\ scheduler = NoScheduler
    /\ av_pc = "input"
    /\ av_date = "2025-01-15"
    /\ av_events = <<>>
    /\ av_periods = <<>>
    /\ av_slots = <<>>
    /\ av_exclude = ""
    /\ av_check = NoCheck

NextTwo ==
    \E u \in Users :
        \/ FlowCancel(u)
        \/ StartModify(u)
        \/ ModifyReservationSelection(u)
        \/ FieldSelection(u)
        \/ TimeDateSelection(u)
        \/ TimeInputDate(u)
        \/ ModificationConfirmation(u)

SpecTwo == InitTwo /\ [][NextTwo]_vars

(***************************************************************************)
(* SpecStale: U4 changes the time of the reservation it made before the    *)
(* process started, while U3 books.                                        *)
(***************************************************************************)
Stale == {"U3", "U4"}

InitStale ==
    /\ user_states = EmptyDict
    /\ calendar = << NewEvent(Booked, _get_line_display_name("U4")) >>
    /\ sheet = << NewRow(Booked, _get_line_display_name("U4")) >>
    /\ last = NoLast
    /\ failures = 0
    /\ writes = 0
    /\ requests = <<>>
    /\ consented = Consented
    /\ reminders = NoReminders
    /\ scheduler = NoScheduler
    /\ av_pc = "input"
    /\ av_date = "2025-01-15"
    /\ av_events = <<>>
    /\ av_periods = <<>>
    /\ av_slots = <<>>
    /\ av_exclude = ""
    /\ av_check = NoCheck

NextStale ==
    \E u \in Stale :
        \/ FlowCancel(u)
        \/ StartReservation(u)
        \/ ServiceSelection(u)
        \/ StaffSelection(u)
        \/ DateSelection(u)
        \/ TimeSelection(u)
        \/ Confirmation(u)
        \/ StartModify(u)
        \/ ModifyReservationSelection(u)
        \/ FieldSelection(u)
        \/ TimeDateSelection(u)
        \/ ModificationConfirmation(u)

SpecStale == InitStale /\ [][NextStale]_vars

(***************************************************************************)
(* Properties of the flows.  last is the record of the latest handling,    *)
(* and in an action formula last' is the record of the step itself.        *)
(***************************************************************************)
CreateCalls == {"create_reservation_event", "save_reservation"}
CancelCalls == {"update_reservation_status", "cancel_reservation_by_id"}
FlowSteps == CreateSteps \cup CancelSteps \cup ModifySteps
StoresChange == calendar' # calendar \/ sheet' # sheet
HasSession(u) == u \in DOMAIN user_states

\* the replies that report a commit, and the replies that apologise for a
\* failed update of the sheet or of the calendar
CommitReplies == {"reservation_confirmed", "cancel_complete",
                  "time_change_complete", "service_change_complete",
                  "staff_change_complete"}
UpdateApologies == {"sorry_cancel_error", "sorry_calendar_update_failed",
                    "sorry_staff_update_failed"}

\* C1: outside the Modify flow, a step that calls a persistence operation or
\* changes the calendar or the sheet handles a message with an affirmative
\* keyword, at step confirmation with the calls of Create or at step
\* cancel_confirm with the calls of Cancel.
C1_PersistenceOnlyOnAffirmative ==
    [][ (last'.step \notin ModifySteps /\ (last'.calls # {} \/ StoresChange))
            => /\ "yes" \in last'.kw
               /\ \/ last'.step = "confirmation" /\ last'.calls \subseteq CreateCalls
                  \/ last'.step = "cancel_confirm" /\ last'.calls \subseteq CancelCalls
      ]_vars

\* an affirmative message at cancel_confirm has cancelled a reservation that
\* an affirmative message at confirmation had created
C1_Witness ==
    /\ last.step = "cancel_confirm"
    /\ "yes" \in last.kw
    /\ last.calls = CancelCalls
    /\ \E i \in 1..Len(sheet) :
           sheet[i].status = "Cancelled" /\ sheet[i].client_name = "Aoi"

\* C2: once a message without an affirmative keyword was answered at step
\* confirmation with the cancellation text, the next message of that user
\* does not commit the rejected draft.
C2_RejectedDraftNotCommitted ==
    [][ (last.step = "confirmation" /\ "yes" \notin last.kw
            /\ last.reply = "reservation_cancelled" /\ last'.user = last.user)
            => last'.calls \cap CreateCalls = {}
      ]_vars

\* C3: while no collaborator has failed, no two events of the calendar on
\* the same date overlap in time.
C3_NoOverlappingCommits ==
    failures = 0 =>
        \A i, j \in 1..Len(calendar) :
            (i < j /\ calendar[i].date = calendar[j].date)
                => (calendar[i].end <= calendar[j].start
                       \/ calendar[j].end <= calendar[i].start)

\* C4: a step that replies that the reservation is confirmed has added one
\* event to the calendar and one row to the sheet.
C4_ConfirmedOnlyIfBothCreated ==
    [][ last'.reply = "reservation_confirmed"
            => /\ Len(calendar') = Len(calendar) + 1
               /\ Len(sheet') = Len(sheet) + 1
      ]_vars

\* C5: after a handling that committed (Create confirmed, Modify applied,
\* Cancel executed) the user has no session.
C5_NoSessionAfterCommit ==
    last.reply \in CommitReplies => ~HasSession(last.user)

\* C6: a step that handles a message with a flow-cancel keyword at a step of
\* the Create, Modify or Cancel flow leaves the user without a session,
\* calls no persistence operation and leaves the calendar and the sheet as
\* they were.
C6_FlowCancelDeletesSession ==
    [][ ("flow_cancel" \in last'.kw /\ last'.step \in FlowSteps)
            => /\ last'.user \notin DOMAIN user_states'
               /\ last'.calls = {}
               /\ ~StoresChange
      ]_vars

\* a message with a flow-cancel keyword and an affirmative keyword was
\* handled at modify_confirm and the session is gone
C6_Witness ==
    /\ last.step = "modify_confirm"
    /\ last.kw = {"yes", "flow_cancel"}
    /\ ~HasSession(last.user)
    /\ last.calls = {}

\* C7: after a handling in the Modify or Cancel flow that apologised for a
\* failed update of the sheet or of the calendar the user has no session.
C7_FailureClearsSession ==
    last.reply \in UpdateApologies => ~HasSession(last.user)

(***************************************************************************)
(* Properties of the availability offered for a modification (checked      *)
(* under SpecAvail).                                                       *)
(***************************************************************************)
\* the calendar without the events of one reservation
BlockingWithout(reservation_id) ==
    SelectSeq(calendar, LAMBDA e : e.id # reservation_id)

SlotIv(slot) == [s |-> strptime_HM(slot.time), e |-> strptime_HM(slot.end_time)]

\* the event of the excluded reservation
Excluded == CHOOSE e \in { calendar[i] : i \in 1..Len(calendar) } : e.id = av_exclude

\* no event of another reservation on the same date overlaps the excluded one
NoOtherOverlaps ==
    \A j \in 1..Len(calendar) :
        (calendar[j].id # av_exclude /\ calendar[j].date = Excluded.date)
            => ~Overlaps(EventIv(calendar[j]), EventIv(Excluded))

\* the excluded reservation's interval lies inside one returned window
OwnSlotOffered ==
    \E k \in 1..Len(av_slots) :
        /\ av_slots[k].date = Excluded.date
        /\ SlotIv(av_slots[k]).s <= Excluded.start
        /\ Excluded.end <= SlotIv(av_slots[k]).e

\* the excluded reservation lies inside one business period of a working day
InsideBusinessPeriod ==
    /\ weekday(Excluded.date) # 6
    /\ \E i \in 1..2 : Inside(EventIv(Excluded), PeriodIv(i))

DraftBefore == user_states[last'.user].data

\* a time range was typed without any keyword, at step time_selection, and
\* no outside service failed while it was handled
TimeRangeHandled ==
    /\ last'.step = "time_selection"
    /\ last'.msg.kw = {}
    /\ last'.msg.body.kind = "time_range"
    /\ failures' = failures

\* what the validation policy answers to the range of body for a draft:
\* times are compared as times of day
RangeVerdict(draft, body) ==
    LET s == strptime_HM(body.start_time)
        e == strptime_HM(body.end_time)
        windows == _generate_all_slots(draft.date, calendar)
        contained == \E k \in 1..Len(windows) :
                         /\ strptime_HM(windows[k].time) <= s
                         /\ e <= strptime_HM(windows[k].end_time)
    IN  IF s >= e THEN "time_inverted"
        ELSE IF ~contained THEN "time_not_available"
        ELSE IF e - s < service_duration(draft.service) THEN "time_too_short"
        ELSE "ask_confirmation"

DraftAfter == user_states'[last'.user].data

IntentKeywords == {"reservation", "modify", "cancel"}

\* the flow a step belongs to
FlowOf(step) == IF step \in CreateSteps THEN "create"
                ELSE IF step \in CancelSteps THEN "cancel"
                ELSE IF step \in ModifySteps THEN "modify"
                ELSE "none"

\* what the handler of the flow of u's step does with message m
FlowHandler(u, m, env) ==
    CASE StepOf(u) \in CreateSteps -> handle_reservation_flow(u, m, env)
      [] StepOf(u) \in CancelSteps -> _handle_cancel_request(u, m, env)
      [] StepOf(u) \in ModifySteps -> _handle_modify_request(u, m, env)

\* the handling recorded in last' is the outcome r of a handler
IsOutcome(r) ==
    /\ last'.reply = r.reply
    /\ last'.calls = r.calls
    /\ calendar' = r.cal
    /\ sheet' = r.sh
    /\ user_states' \in {r.us, Del(r.us, last'.user)}

StepAfter == IF last'.user \in DOMAIN user_states'
             THEN user_states'[last'.user].step ELSE "none"

\* C15: a message of a user without session is routed by the precedence
\* reservation > modify > cancel: with a reservation keyword the session is
\* at service_selection afterwards, otherwise with a modify keyword at the
\* reservation lookup of Modify, otherwise with a cancel keyword at the
\* reservation lookup of Cancel, and otherwise get_response returns None and
\* there is no session.
C15_KeywordPrecedenceStartsFlow ==
    [][ last'.step = "none"
            => IF "reservation" \in last'.msg.kw
               THEN StepAfter = "service_selection"
               ELSE IF "modify" \in last'.msg.kw
               THEN StepAfter = "modify_select_reservation"
               ELSE IF "cancel" \in last'.msg.kw
               THEN StepAfter = "cancel_select_reservation"
               ELSE last'.reply = "None" /\ StepAfter = "none" ]_vars

(***************************************************************************)
(* Properties of the Create flow's steps (checked under Spec).             *)
(***************************************************************************)
\* the step after a step on the way to the confirmation
NextCreateStep(step) ==
    CASE step = "none" -> "service_selection"
      [] step = "service_selection" -> "staff_selection"
      [] step = "staff_selection" -> "date_selection"
      [] step = "date_selection" -> "time_selection"
      [] step = "time_selection" -> "confirmation"
      [] OTHER -> step

\* C16: the handling of a message moves a Create session from no session
\* to service_selection, from a step to the next step of service_selection,
\* staff_selection, date_selection, time_selection, confirmation, back to
\* service_selection or date_selection when the message has the navigation
\* keyword, or deletes the session, or leaves the step as it is.
C16_CreateStepsInOrder ==
    [][ (\/ last'.step \in CreateSteps
         \/ last'.step = "none" /\ StepAfter \in CreateSteps)
        => \/ StepAfter \in {"none", last'.step, NextCreateStep(last'.step)}
           \/ /\ last'.step \in CreateSteps
              /\ StepAfter = "service_selection"
              /\ "service_change" \in last'.msg.kw
           \/ /\ last'.step \in CreateSteps
              /\ StepAfter = "date_selection"
              /\ "date_change" \in last'.msg.kw ]_vars

\* C16 witness: the date-change keyword took a session from time_selection
\* back to date_selection
C16_Witness ==
    /\ last.step = "time_selection"
    /\ "date_change" \in last.msg.kw
    /\ HasSession(last.user)
    /\ user_states[last.user].step = "date_selection"

(***************************************************************************)
(* Properties of the Modify flow (checked under Spec).                     *)
(***************************************************************************)
\* C17: in the Modify flow the handling of a message calls a persistence
\* operation or changes the calendar or the sheet only when the message
\* has an affirmative keyword.
C17_ModifyPersistsOnlyOnAffirmative ==
    [][ (last'.step \in ModifySteps /\ (last'.calls # {} \/ StoresChange))
            => "yes" \in last'.msg.kw ]_vars

\* the replies with which a Create step rejects its input
CreateRejections == {"no_such_service", "no_such_staff", "bad_date_format",
                     "date_full", "bad_time_format", "time_inverted",
                     "time_not_available", "time_too_short"}

DraftFields == {"service", "staff", "date", "start_time", "end_time"}

\* a field of a draft: <<value>> when it is set, <<>> when it is not
FieldOf(draft, f) == IF f \in DOMAIN draft THEN <<draft[f]>> ELSE <<>>

\* C18: when a Create step rejects its input, the session stays at the step
\* and the draft fields service, staff, date, start_time and end_time are as
\* they were.
C18_RejectionKeepsDraft ==
    [][ (last'.step \in CreateSteps /\ last'.reply \in CreateRejections)
            => /\ StepAfter = last'.step
               /\ \A f \in DraftFields :
                      FieldOf(DraftAfter, f) = FieldOf(DraftBefore, f) ]_vars

\* the draft fields chosen after the service
DownstreamFields == {"staff", "date", "start_time", "end_time"}

\* C19: a message with a change-service keyword (and no flow-cancel keyword)
\* handled at staff_selection, date_selection or time_selection leaves the
\* session at service_selection with none of the draft fields staff, date,
\* start_time, end_time set.
C19_ServiceChangeDiscardsDownstream ==
    [][ (/\ last'.step \in {"staff_selection", "date_selection", "time_selection"}
         /\ "service_change" \in last'.msg.kw
         /\ "flow_cancel" \notin last'.msg.kw)
            => /\ StepAfter = "service_selection"
               /\ DOMAIN DraftAfter \cap DownstreamFields = {} ]_vars

(***************************************************************************)
(* Properties of the reservation lookup of Modify and Cancel (checked      *)
(* under Spec).                                                            *)
(***************************************************************************)
LookupSteps == {"cancel_select_reservation", "modify_select_reservation"}

\* the replies that ask again for a number or an id
Reprompts == {"id_not_found", "number_out_of_range", "bad_selection_format"}

\* the list fetched for the user whose message was handled
FetchedList ==
    IF "user_reservations" \in DOMAIN user_states[last'.user]
    THEN user_states[last'.user].user_reservations ELSE <<>>

\* the handling selected reservation r: the session holds it and is at the
\* next step of its flow
Selects(r) ==
    /\ last'.user \in DOMAIN user_states'
    /\ IF last'.step = "cancel_select_reservation"
       THEN /\ user_states'[last'.user].step = "cancel_confirm"
            /\ user_states'[last'.user].selected_reservation = r
       ELSE /\ user_states'[last'.user].step = "modify_select_field"
            /\ user_states'[last'.user].reservation_data = r

\* the lookup step answers the message as the selection policy says
LookupPolicy ==
    LET body == last'.msg.body
    IN  IF body.kind = "number" /\ 1 <= body.n /\ body.n <= Len(FetchedList)
        THEN Selects(FetchedList[body.n])
        ELSE IF /\ body.kind = "resid"
                /\ \E i \in 1..Len(FetchedList) :
                       FetchedList[i].reservation_id = body.id
        THEN \E i \in 1..Len(FetchedList) :
                 /\ FetchedList[i].reservation_id = body.id
                 /\ Selects(FetchedList[i])
        ELSE /\ last'.reply \in Reprompts
             /\ user_states' = user_states

\* C20: at the reservation lookup of Modify and Cancel a number n with
\* 1 <= n <= length of the fetched list selects the n-th reservation of the
\* list, a reservation id of the list selects the entry with that id, and
\* every other message (without flow-cancel keyword) is answered with a
\* re-prompt and leaves the session unchanged.
C20_LookupSelectsFromList ==
    [][ (last'.step \in LookupSteps /\ "flow_cancel" \notin last'.msg.kw)
            => LookupPolicy ]_vars

(***************************************************************************)
(* Properties of the Modify flow's changes (checked under Spec).           *)
(***************************************************************************)
\* the session of the user whose message was handled, before the handling
SessionBefore == user_states[last'.user]

\* the interval of a sheet row, in minutes after midnight
RowIv(row) == [s |-> strptime_HM(row.start_time), e |-> strptime_HM(row.end_time)]

\* no calendar event of another reservation overlaps interval iv on date
NoOtherBooking(reservation_id, date, iv) ==
    \A j \in 1..Len(calendar) :
        (calendar[j].id # reservation_id /\ calendar[j].date = date)
            => ~Overlaps(EventIv(calendar[j]), iv)

\* a time range is handled as the new time of the edited reservation, for
\* the reservation's own date
TimeChangeOnOwnDate ==
    /\ last'.step = "modify_confirm"
    /\ SessionBefore.modification_type = "time"
    /\ "selected_date" \in DOMAIN SessionBefore
    /\ SessionBefore.selected_date = SessionBefore.reservation_data.date
    /\ last'.msg.kw = {}
    /\ last'.msg.body.kind = "time_range"

\* the replies with which a new time is refused
TimeRefusals == {"bad_time_format", "time_not_available", "time_inverted"}

\* C21: in a time change on the reservation's own date, re-entering the
\* reservation's current start~end is not refused when no booking of
\* another reservation overlaps that interval.
C21_OwnSlotAcceptedInTimeChange ==
    [][ (/\ TimeChangeOnOwnDate
         /\ strptime_HM(last'.msg.body.start_time)
                = RowIv(SessionBefore.reservation_data).s
         /\ strptime_HM(last'.msg.body.end_time)
                = RowIv(SessionBefore.reservation_data).e
         /\ NoOtherBooking(SessionBefore.reservation_data.reservation_id,
                           SessionBefore.reservation_data.date,
                           RowIv(SessionBefore.reservation_data)))
            => last'.reply \notin TimeRefusals ]_vars

(***************************************************************************)
(* Staff-scoped conflict checking (checked under SpecAvail).               *)
(***************************************************************************)
\* the bookings of the checked date that the check does not exclude
CheckedBookings ==
    { i \in 1..Len(calendar) :
          /\ calendar[i].date = av_date
          /\ ~(av_check.exclude # "" /\ calendar[i].id = av_check.exclude) }

OverlapsCandidate(i) ==
    Overlaps([s |-> av_check.start, e |-> av_check.end], EventIv(calendar[i]))

C23_OneHandlingPerUserAtATime ==
    \A k \in 1..Len(requests) :
        requests[k].pc = "handling" =>
            /\ requests[k].seen = SessionEntry(requests[k].user)
            /\ \A j \in 1..Len(requests) :
                   (j # k /\ requests[j].user = requests[k].user)
                       => requests[j].pc # "handling"

\* two requests of one user were in flight together: the later one was
\* handled to its end while the earlier one awaited its body, and the
\* earlier one now finds the session the later one left
C23_Witness ==
    \E k, j \in 1..Len(requests) :
        /\ k < j
        /\ requests[j].user = requests[k].user
        /\ requests[j].pc = "done"
        /\ requests[k].pc = "handling"
        /\ requests[k].seen # EmptyDict
        /\ requests[k].seen[requests[k].user].step = "service_selection"

(***************************************************************************)
(* Two users of one display name (checked under SpecShared).               *)
(***************************************************************************)
\* C24: handling a message of user A leaves the session entry of every
\* other user B as it was: B's step, draft and scratch data do not change
C24_OtherSessionsUntouched ==
    [][ \A b \in Shared :
            b # last'.user => SessionEntry(b)' = SessionEntry(b) ]_vars

\* U2 has committed a reservation while U4 was in the middle of the Cancel
\* flow, and U4's session still holds its step and its selection
C24_Witness ==
    /\ last.user = "U2"
    /\ "create_reservation_event" \in last.calls
    /\ "U4" \in DOMAIN user_states
    /\ user_states["U4"].step = "cancel_confirm"
    /\ "selected_reservation" \in DOMAIN user_states["U4"]

\* in SpecShared only U2 sends the messages of the Create flow: the
\* reservations of the sheet are U2's, and U4 has none
CommittedBy(u) ==
    IF u = "U2" THEN { sheet[i].reservation_id : i \in 1..Len(sheet) } ELSE {}

\* the reservations a session holds: the fetched list and the selection
HeldReservations(u) ==
    (IF "user_reservations" \in DOMAIN user_states[u]
     THEN { user_states[u].user_reservations[i].reservation_id :
                i \in 1..Len(user_states[u].user_reservations) }
     ELSE {})
    \cup (IF "selected_reservation" \in DOMAIN user_states[u]
          THEN {user_states[u].selected_reservation.reservation_id} ELSE {})
    \cup (IF "reservation_data" \in DOMAIN user_states[u]
          THEN {user_states[u].reservation_data.reservation_id} ELSE {})

\* C25: a user lists, selects, modifies and cancels only reservations that
\* the same user id committed, whatever the display names: the account U4,
\* whose display name is that of U2, is never shown a reservation of U2 and
\* never cancels or modifies one
C25_NamesakeCannotReachReservations ==
    /\ \A u \in DOMAIN user_states \cap {"U2", "U4"} :
           HeldReservations(u) \subseteq CommittedBy(u)
    /\ last.calls \ CreateCalls # {} => last.user # "U4"

(***************************************************************************)
(* Reservation ids (checked under SpecPair).                               *)
(***************************************************************************)
\* C26: the ids assigned at confirmation are unique: no two rows of the
\* sheet and no two events of the calendar carry the same reservation id
C26_ReservationIdsUnique ==
    /\ \A i, j \in 1..Len(sheet) :
           i # j => sheet[i].reservation_id # sheet[j].reservation_id
    /\ \A i, j \in 1..Len(calendar) :
           i # j => calendar[i].id # calendar[j].id

(***************************************************************************)
(* Cancel and Modify flows against the calendar (checked under Spec).      *)
(***************************************************************************)
\* the reservation a cancel confirmation is about
CancelledReservation == SessionBefore.selected_reservation

\* C27: when the Cancel flow replies that the cancellation is complete, the
\* calendar holds no event of the cancelled reservation any more, so its
\* interval no longer blocks the free windows of that date
C27_CancelledNoLongerBlocks ==
    [][ (/\ last'.step = "cancel_confirm"
         /\ last'.reply = "cancel_complete")
            => \A i \in 1..Len(calendar') :
                   calendar'[i].id # CancelledReservation.reservation_id ]_vars

\* a new service is entered for the reservation selected in the Modify flow
ServiceChangeHandled ==
    /\ last'.step = "modify_confirm"
    /\ SessionBefore.modification_type = "service"
    /\ last'.msg.kw = {}
    /\ last'.msg.body.kind = "service"

\* [reservation start, start + duration of the new service)
NewServiceIv ==
    [s |-> RowIv(SessionBefore.reservation_data).s,
     e |-> RowIv(SessionBefore.reservation_data).s
               + service_duration(last'.msg.body.service)]

\* C28: a service change is committed only if the interval from the
\* reservation's start to start + the new service's duration overlaps no
\* other booking; when it overlaps one, the change is not reported as done
\* and neither the calendar nor the sheet changes
C28_ServiceChangeRefusedOnOverlap ==
    [][ (/\ ServiceChangeHandled
         /\ ~NoOtherBooking(SessionBefore.reservation_data.reservation_id,
                            SessionBefore.reservation_data.date, NewServiceIv))
            => /\ last'.reply # "service_change_complete"
               /\ ~StoresChange ]_vars

\* a new staff member is entered for the reservation selected in the
\* Modify flow
StaffChangeHandled ==
    /\ last'.step = "modify_confirm"
    /\ SessionBefore.modification_type = "staff"
    /\ last'.msg.kw = {}
    /\ last'.msg.body.kind = "staff"

\* the new staff member has another booking that overlaps the reservation
NewStaffIsBusy ==
    \E j \in 1..Len(calendar) :
        /\ calendar[j].id # SessionBefore.reservation_data.reservation_id
        /\ calendar[j].date = SessionBefore.reservation_data.date
        /\ calendar[j].staff = last'.msg.body.staff
        /\ Overlaps(EventIv(calendar[j]), RowIv(SessionBefore.reservation_data))

\* C29: a staff change is committed only if the new staff member has no
\* other booking overlapping the reservation's date and time interval
C29_StaffChangeRefusedWhenBusy ==
    [][ (StaffChangeHandled /\ NewStaffIsBusy)
            => /\ last'.reply # "staff_change_complete"
               /\ ~StoresChange ]_vars

(***************************************************************************)
(* Time change of one of several reservations (checked under SpecTwo).     *)
(***************************************************************************)
\* a time change of the selected reservation is reported as done, for a
\* user whose fetched list holds several reservations
TimeChangeCommitted ==
    /\ last'.step = "modify_confirm"
    /\ SessionBefore.modification_type = "time"
    /\ Len(SessionBefore.user_reservations) >= 2
    /\ last'.reply = "time_change_complete"

\* C30: when a user who has several reservations commits a time change, the
\* calendar event that moves is the one carrying the selected reservation
\* id, and the event of no other reservation changes
C30_TimeChangeMovesSelectedEvent ==
    [][ TimeChangeCommitted =>
            \A i \in 1..Len(calendar) :
                IF calendar[i].id = SessionBefore.reservation_data.reservation_id
                THEN /\ calendar'[i].date = SessionBefore.selected_date
                     /\ calendar'[i].start = strptime_HM(last'.msg.body.start_time)
                ELSE calendar'[i] = calendar[i] ]_vars

(***************************************************************************)
(* One commit per draft (checked under Spec).                              *)
(***************************************************************************)
\* C31: a confirmed draft is persisted at most once: a message at step
\* confirmation creates a calendar event or a sheet row only from a draft
\* that no earlier confirmation has given a reservation id
C31_DraftCommittedAtMostOnce ==
    [][ (/\ last'.step = "confirmation"
         /\ CreateCalls \cap last'.calls # {}
         /\ StoresChange)
            => "reservation_id" \notin DOMAIN DraftBefore ]_vars

\* C32: every session at step cancel_select_reservation or
\* modify_select_reservation holds a fetched reservation list that is
\* not empty, so the next message of the user can be matched against it
C32_LookupStepHoldsList ==
    \A u \in DOMAIN user_states :
        user_states[u].step \in LookupSteps
            => /\ "user_reservations" \in DOMAIN user_states[u]
               /\ user_states[u].user_reservations # <<>>

(***************************************************************************)
(* Time change against bookings made meanwhile (checked under SpecStale).  *)
(***************************************************************************)
\* the interval a committed time change gives the reservation: from the
\* typed start, for the duration of the reservation's service
NewTimeIv ==
    [s |-> strptime_HM(last'.msg.body.start_time),
     e |-> strptime_HM(last'.msg.body.start_time)
               + service_duration(SessionBefore.reservation_data.service)]

\* C33: a time change is committed only if the new interval is free with
\* respect to the bookings the calendar holds when the change is committed,
\* including a booking another user committed after the free windows were
\* shown
C33_TimeChangeFreeAtCommit ==
    [][ (/\ last'.step = "modify_confirm"
         /\ SessionBefore.modification_type = "time"
         /\ last'.reply = "time_change_complete")
            => NoOtherBooking(SessionBefore.reservation_data.reservation_id,
                              SessionBefore.selected_date, NewTimeIv) ]_vars

(***************************************************************************)
(* Calendar and sheet side by side (checked under SpecStale).              *)
(***************************************************************************)
\* C34: as long as no outside call has failed, the calendar event and the
\* sheet row of each reservation agree on date, start time and end time
C34_EventAndRowAgree ==
    failures = 0 =>
        \A i \in 1..Len(sheet), j \in 1..Len(calendar) :
            sheet[i].reservation_id = calendar[j].id
                => /\ sheet[i].date = calendar[j].date
                   /\ RowIv(sheet[i]) = EventIv(calendar[j])

(***************************************************************************)
(* Windows offered for a time change (checked under Spec).                 *)
(***************************************************************************)
\* the session after the handling, when it has just stored the windows of
\* the date chosen for a time change
SessionAfter == user_states'[last'.user]

TimesShown ==
    /\ last'.step \in {"modify_time_date_select", "modify_time_input_date"}
    /\ last'.user \in DOMAIN user_states'
    /\ SessionAfter.step = "modify_confirm"
    /\ failures' = 0

\* the event lies in business hours on the chosen date and belongs to
\* another staff member than the reservation, whose own staff member has
\* no other booking overlapping it
OccupiedByOtherStaffOnly(e) ==
    /\ e.date = SessionAfter.selected_date
    /\ e.id # SessionAfter.reservation_data.reservation_id
    /\ e.staff # SessionAfter.reservation_data.staff
    /\ \E p \in 1..2 : Inside(EventIv(e), PeriodIv(p))
    /\ \A j \in 1..Len(calendar) :
           (/\ calendar[j].date = e.date
            /\ calendar[j].staff = SessionAfter.reservation_data.staff
            /\ calendar[j].id # SessionAfter.reservation_data.reservation_id)
               => ~Overlaps(EventIv(calendar[j]), EventIv(e))

\* C35: in a time change with the staff unchanged, only the other bookings
\* of that staff member block the windows: the time of a booking of
\* another staff member lies inside one of the windows offered
C35_OtherStaffDoNotBlock ==
    [][ TimesShown =>
            \A i \in 1..Len(calendar) :
                OccupiedByOtherStaffOnly(calendar[i]) =>
                    \E k \in 1..Len(SessionAfter.available_slots) :
                        /\ strptime_HM(SessionAfter.available_slots[k].time)
                               <= calendar[i].start
                        /\ calendar[i].end
                               <= strptime_HM(SessionAfter.available_slots[k].end_time) ]_vars

(***************************************************************************)
(* Order of the draft fields of Create (checked under Spec).               *)
(***************************************************************************)
\* the fields a draft must hold before it may hold field f
EarlierFields(f) ==
    CASE f = "service" -> {}
      [] f = "staff" -> {"service"}
      [] f = "date" -> {"service", "staff"}
      [] OTHER -> {"service", "staff", "date"}

\* C36: in every Create session a draft field is set only if all fields
\* before it in the order service, staff, date, start/end time are set, and
\* a session at confirmation has all of service, staff, date, start_time and
\* end_time set
C36_DraftFieldsInOrder ==
    \A u \in DOMAIN user_states :
        user_states[u].step \in CreateSteps
            => /\ \A f \in DraftFields \cap DOMAIN user_states[u].data :
                      EarlierFields(f) \subseteq DOMAIN user_states[u].data
               /\ user_states[u].step = "confirmation"
                      => DraftFields \subseteq DOMAIN user_states[u].data

\* a session went back from date_selection to service_selection and still
\* holds the service, the staff and the date
C36_Witness ==
    \E u \in DOMAIN user_states :
        /\ user_states[u].step = "service_selection"
        /\ {"service", "staff", "date"} \subseteq DOMAIN user_states[u].data

(***************************************************************************)
(* Shape of the free windows (checked under SpecAvail).                    *)
(***************************************************************************)
\* C37: for any blocking intervals, also overlapping ones and ones reaching
\* out of the business hours, every free window returned for a business
\* period has positive length and lies inside the period, and the windows
\* of a date are listed in increasing time order without overlapping
C37_WindowsWellFormed ==
    /\ av_pc = "done" =>
           \A i \in 1..2 : \A k \in 1..Len(av_periods[i]) :
               Inside(WindowIv(av_periods[i][k]), PeriodIv(i))
    /\ av_pc # "input" =>
           \A k, l \in 1..Len(av_slots) :
               k < l => SlotIv(av_slots[k]).e <= SlotIv(av_slots[l]).s

\* two overlapping events, one of them starting before the opening hour,
\* answered with windows in both business periods
C37_Witness ==
    /\ av_pc = "done"
    /\ Len(av_events) = 2
    /\ Overlaps(EventIv(av_events[1]), EventIv(av_events[2]))
    /\ \E k \in 1..2 : av_events[k].start < PeriodIv(1).s
    /\ Len(av_periods[1]) >= 1
    /\ Len(av_slots) >= 2

(***************************************************************************)
(* The daily reminder run (reminder_system.py).                            *)
(***************************************************************************)
\* _parse_event_to_reservation: the reservation an event stands for
_parse_event_to_reservation(event) ==
    [reservation_id |-> event.id, date |-> event.date,
     client_name |-> event.client]

\* GoogleSheetsLogger.get_reservations_for_date: every row of the date,
\* whatever its status; none when the sheet cannot be read
get_reservations_for_date(date_str, env) ==
    IF env.sheet_ok
    THEN SelectSeq(sheet, LAMBDA r : r.date = date_str)
    ELSE <<>>

\* get_tomorrow_reservations: the events of the calendar, then the rows of
\* the sheet whose id no event carries
get_tomorrow_reservations(tomorrow, env) ==
    LET events == get_events_for_date(tomorrow, env)
        reservations == [k \in 1..Len(events) |->
                            _parse_event_to_reservation(events[k])]
        existing_ids == { reservations[k].reservation_id :
                              k \in 1..Len(reservations) }
        sheets_reservations ==
            SelectSeq(get_reservations_for_date(tomorrow, env),
                      LAMBDA r : r.reservation_id \notin existing_ids)
    IN  reservations
        \o [k \in 1..Len(sheets_reservations) |->
               [reservation_id |-> sheets_reservations[k].reservation_id,
                date |-> sheets_reservations[k].date,
                client_name |-> sheets_reservations[k].client_name]]

\* GoogleSheetsLogger.get_user_id_for_reservation: the User ID of the first
\* row with the id, "" for None
get_user_id_for_reservation(reservation_id, env) ==
    IF env.sheet_ok /\ RowIndex(reservation_id) # 0
    THEN sheet[RowIndex(reservation_id)].user_id
    ELSE ""

\* run_daily_reminders: the pushes that were sent, one per reservation whose
\* user id was found
run_daily_reminders(tomorrow, env) ==
    LET reservations == get_tomorrow_reservations(tomorrow, env)
        found == SelectSeq(reservations,
                           LAMBDA r : /\ get_user_id_for_reservation(r.reservation_id, env) # ""
                                      /\ env.line_ok)
    IN  [k \in 1..Len(found) |->
            [to |-> get_user_id_for_reservation(found[k].reservation_id, env),
             reservation_id |-> found[k].reservation_id]]

(***************************************************************************)
(* SpecRemind: the Create flow of U2, the Cancel flow of U4 and the        *)
(* reminder run.  The sheet holds a row of U4 whose User ID is filled in;  *)
(* the rows save_reservation appends have none.                            *)
(***************************************************************************)
\* the outcomes of the calendar, the sheet and the push API in a run
EnvsRun == { [cal_ok |-> c, sheet_ok |-> s, line_ok |-> l,
              counter |-> 0, lookup |-> "ok"] :
                 c \in BOOLEAN, s \in BOOLEAN, l \in BOOLEAN }

InitRemind ==
    /\ user_states = EmptyDict
    /\ calendar = << NewEvent(Booked, _get_line_display_name("U4")) >>
    /\ sheet = << [NewRow(Booked, _get_line_display_name("U4"))
                      EXCEPT !.user_id = "U4"] >>
    /\ last = NoLast
    /\ failures = 0
    /\ writes = 0
    /\ requests = <<>>
    /\ consented = Consented
    /\ reminders = NoReminders
    /\ scheduler = NoScheduler
    /\ av_pc = "input"
    /\ av_date = "2025-01-15"
    /\ av_events = <<>>
    /\ av_periods = <<>>
    /\ av_slots = <<>>
    /\ av_exclude = ""
    /\ av_check = NoCheck

\* _run_reminders on the day before one of the dates
RunDailyReminders ==
    /\ reminders.runs < MaxRuns
    /\ \E tomorrow \in Dates, env \in EnvsRun :
           /\ failures + Failed(env) <= MaxFailures
           /\ failures' = failures + Failed(env)
           /\ reminders' = [runs |-> reminders.runs + 1,
                            sent |-> run_daily_reminders(tomorrow, env)]
    /\ UNCHANGED <<user_states, calendar, sheet, last, writes, requests,
                   consented, scheduler>>
    /\ UNCHANGED av_vars

NextRemind ==
    \/ \E u \in Shared :
           \/ FlowCancel(u)
           \/ StartReservation(u)
           \/ ServiceSelection(u)
           \/ StaffSelection(u)
           \/ DateSelection(u)
           \/ TimeSelection(u)
           \/ Confirmation(u)
           \/ StartCancel(u)
           \/ CancelReservationSelection(u)
           \/ CancelConfirmation(u)
    \/ RunDailyReminders

SpecRemind == InitRemind /\ [][NextRemind]_vars

(***************************************************************************)
(* Reminders and cancelled reservations (checked under SpecRemind).        *)
(***************************************************************************)
\* the step is a reminder run, and no outside call has failed
ReminderRun == reminders'.runs # reminders.runs /\ failures' = 0

Newcomers == {"U5"}

\* the three consent messages: "同意画面を開く", "同意する", "同意しない"
ConsentMessages ==
    { [kw |-> {}, body |-> [kind |-> "consent", text |-> t]] :
          t \in {"open", "agree", "disagree"} }

\* the reply of the message is sent or the call to LINE raises
EnvsLine == { [cal_ok |-> TRUE, sheet_ok |-> TRUE, line_ok |-> l,
               counter |-> 0, lookup |-> "ok"] : l \in BOOLEAN }

InitConsent ==
    /\ user_states = EmptyDict
    /\ calendar = <<>>
    /\ sheet = <<>>
    /\ last = NoLast
    /\ failures = 0
    /\ writes = 0
    /\ requests = <<>>
    /\ consented = Consented
    /\ reminders = NoReminders
    /\ scheduler = NoScheduler
    /\ av_pc = "input"
    /\ av_date = "2025-01-15"
    /\ av_events = <<>>
    /\ av_periods = <<>>
    /\ av_slots = <<>>
    /\ av_exclude = ""
    /\ av_check = NoCheck

\* "同意画面を開く" is handled
ConsentScreen(u) ==
    /\ \E m \in ConsentMessages, env \in EnvsLine :
           /\ m.body.text = "open"
           /\ handle_message(u, m, env)
    /\ UNCHANGED requests

\* "同意する" or "同意しない" is handled
ConsentResponse(u) ==
    /\ \E m \in ConsentMessages, env \in EnvsLine :
           /\ m.body.text # "open"
           /\ handle_message(u, m, env)
    /\ UNCHANGED requests

\* another message of a user whose consent is not on file is handled
WithoutConsent(u) ==
    /\ u \notin consented
    /\ \E m \in MessagesOf(u), env \in EnvsLine : handle_message(u, m, env)
    /\ UNCHANGED requests

NextConsent ==
    \E u \in Newcomers :
        \/ ConsentScreen(u)
        \/ ConsentResponse(u)
        \/ WithoutConsent(u)
        \/ FlowCancel(u)
        \/ StartReservation(u)
        \/ ServiceSelection(u)
        \/ StaffSelection(u)
        \/ DateSelection(u)
        \/ TimeSelection(u)
        \/ Confirmation(u)

SpecConsent == InitConsent /\ [][NextConsent]_vars

(***************************************************************************)
(* The consent gate (checked under SpecConsent).                           *)
(***************************************************************************)
\* C39: no reservation session is created or advanced for a user who has
\* not consented: a message other than the three consent messages, sent by
\* a user who is not in the consented set, is answered with the consent
\* reminder without a call of get_response, and the user's session is as
\* it was
C39_NoFlowWithoutConsent ==
    [][ \A u \in Newcomers :
            (/\ u \notin consented
             /\ last'.user = u
             /\ last'.msg.body.kind # "consent")
                => /\ last'.reply = "consent_required"
                   /\ SessionEntry(u) = [k \in DOMAIN user_states' \cap {u} |->
                                            user_states'[k]] ]_vars

(***************************************************************************)
(* SpecScheduler: the loop of ReminderScheduler.run_scheduler, which looks *)
(* at the Tokyo time once a minute.  scheduler.current is the time of day  *)
(* in minutes after midnight.                                              *)
(***************************************************************************)
\* the hour and the minute that REMIND_TIME of kb.json names: the default
\* "来店前日 09:00 自動配信" and two other settings
RemindTimes == { <<9, 0>>, <<2, 0>>, <<18, 30>> }

InitScheduler ==
    /\ user_states = EmptyDict
    /\ calendar = << NewEvent(Booked, _get_line_display_name("U4")) >>
    /\ sheet = << [NewRow(Booked, _get_line_display_name("U4"))
                      EXCEPT !.user_id = "U4"] >>
    /\ last = NoLast
    /\ failures = 0
    /\ writes = 0
    /\ requests = <<>>
    /\ consented = Consented
    /\ reminders = NoReminders
    /\ \E t \in RemindTimes :
           scheduler = [current |-> 0, scheduled_hour |-> t[1],
                        scheduled_minute |-> t[2]]
    /\ av_pc = "input"
    /\ av_date = "2025-01-15"
    /\ av_events = <<>>
    /\ av_periods = <<>>
    /\ av_slots = <<>>
    /\ av_exclude = ""
    /\ av_check = NoCheck

\* datetime.now(tokyo_tz).hour and .minute
current_hour == scheduler.current \div 60
current_minute == scheduler.current % 60

\* the test of the loop: "if current_hour == 2 and current_minute == 00";
\* the comparison with scheduled_hour and scheduled_minute is commented out
TimeToRun == current_hour = 2 /\ current_minute = 0

\* one pass of the loop in which the reminders are run; after time.sleep(60)
\* the next look at the clock is a minute later
SchedulerRuns ==
    /\ TimeToRun
    /\ reminders.runs < MaxRuns
    /\ \E env \in EnvsRun :
           /\ failures + Failed(env) <= MaxFailures
           /\ failures' = failures + Failed(env)
           /\ reminders' = [runs |-> reminders.runs + 1,
                            sent |-> run_daily_reminders("2025-01-15", env)]
    /\ scheduler' = [scheduler EXCEPT !.current = (@ + 1) % (24 * 60)]
    /\ UNCHANGED <<user_states, calendar, sheet, last, writes, requests, consented>>
    /\ UNCHANGED av_vars

\* one pass of the loop in which they are not
SchedulerWaits ==
    /\ ~TimeToRun
    /\ scheduler' = [scheduler EXCEPT !.current = (@ + 1) % (24 * 60)]
    /\ UNCHANGED <<user_states, calendar, sheet, last, failures, writes,
                   requests, consented, reminders>>
    /\ UNCHANGED av_vars

NextScheduler == SchedulerRuns \/ SchedulerWaits

SpecScheduler == InitScheduler /\ [][NextScheduler]_vars

(***************************************************************************)
(* The minute of the reminder run (checked under SpecScheduler).           *)
(***************************************************************************)
\* C40: the scheduler loop runs the daily reminder process only in the
\* minute whose Tokyo time equals the configured reminder time
C40_RunsOnlyAtRemindTime ==
    [][ reminders'.runs # reminders.runs
            => /\ current_hour = scheduler.scheduled_hour
               /\ current_minute = scheduler.scheduled_minute ]_vars
====
